---- MODULE Spec2Model ----
(***************************************************************************)
(* Model of hazae41/piscine: the retry loops (src/mods/loop/loop.ts and    *)
(* src/mods/pool/loop.ts), the Item-based pool with StartPool              *)
(* (src/mods/pool/index.ts) and the start/stop pool with its mutex-guarded *)
(* takes (src/mods/pool/pool.ts).  Each part has its own variables and its *)
(* own specification; a specification leaves the other parts' variables    *)
(* unchanged.                                                              *)
(***************************************************************************)
EXTENDS Integers, Sequences, FiniteSets, TLC

\* No result yet
NoResult == [kind |-> "none", value |-> [name |-> "none"]]

\* Nothing picked yet
NotGot == [kind |-> "none", id |-> 0]

\* ------------------------------------------------------------------ bounds
MaxInit == 2        \* options.init ranges over 1..MaxInit
MaxBase == 2        \* options.base ranges over 1..MaxBase
MaxMax == 4         \* options.max ranges over 1..MaxMax
MaxErrors == 2      \* distinct inner errors a looper may produce
MaxCreatorErrors == 1  \* distinct errors a creator may reject with
NumIndexes == 2     \* slot indexes are 0..NumIndexes-1
MaxStarts == 2      \* callers start constructions on a pool that has made fewer than this
MaxStops == 1       \* callers stop or restart slots of a pool that has aborted fewer constructions than this
MaxTakers == 2      \* callers of a take operation, one take each
MaxWaiters == 2      \* callers of a blocking operation, one call each
MaxDisposals == 2   \* runs of one entry cleanup that are told apart
MaxCapacity == 2    \* capacities range over 0..MaxCapacity
MaxBuilds == 3      \* creator calls of a capacity-managed pool

VARIABLES
  \* ---- Item-based pool: Pool and StartPool of src/mods/pool/index.ts
  entries,      \* Pool.#entries: per index an Ok entry or an Err entry
  aborters,     \* StartPool.#aborters: per index the id of its AbortController
  controllers,  \* every AbortController made by start, by id: its index and signal.aborted
  creating,     \* ids of the constructions whose creator promise is still pending
  items,        \* every resource a creator returned, by id of its construction
  emitted,      \* the events emitted by the last operation
  got,          \* the last result of getRandomOrThrow / getCryptoRandomOrThrow
  waiters,      \* the callers of the blocking operations (...OrWaitOrThrow), by id
  autoCapacity, \* AutoPool.capacity, NotAuto for a plain StartPool
  \* ---- start/stop pool: Pool of src/mods/pool/pool.ts (lines 309-838)
  pool,         \* the pool's private fields, its constructions and their resources
  mutex,        \* Pool.#mutex: the takers running their callback under the lock
  takers,       \* the callers of take operations, by id
  iter,         \* one iteration on the pool: for (const value of pool)
  \* ---- capacity-managed pool: Pool of src/unnamed/part_010
  cap,          \* the pool's private fields, its constructions and what they made
  \* ---- retry loop
  loopKind,   \* which loop runs: "loopOrThrow", "tryLoop" or "tryLoopSignal"
  init,       \* options.init
  base,       \* options.base
  max,        \* options.max
  i,          \* the loop counter
  errors,     \* the collected Retry / Skip failures
  signal,     \* options.signal.aborted (signal-aware tryLoop only)
  loopPc,     \* "head" | "looper" | "sleep" | "done"
  outcomes,   \* what the looper answered, attempt by attempt
  trace,      \* looper invocations and sleeps, in order
  result      \* the loop's result once loopPc = "done"

loopVars == << loopKind, init, base, max, i, errors, signal, loopPc, outcomes, trace, result >>

itemVars == << entries, aborters, controllers, creating, items, emitted, got, waiters, autoCapacity >>

takeVars == << pool, mutex, takers, iter >>

capVars == << cap >>

vars == << itemVars, takeVars, capVars, loopVars >>

Indexes == 0..(NumIndexes - 1)

\* ======================================================== Item-based pool
CreatorErrors == { [name |-> "Error", id |-> n] : n \in 1..MaxCreatorErrors }

OkEntry(id) == [tag |-> "Ok", item |-> id]

ErrEntry(e) == [tag |-> "Err", error |-> e]

\* delete array[index] on a sparse array
Without(array, idx) == [x \in DOMAIN array \ { idx } |-> array[x]]

\* array[index] = value on a sparse array
With(array, idx, value) == (idx :> value) @@ array

\* array.length = 0
Empty == << >>

\* entry != null && entry.isOk()
IsOk(es, idx) == idx \in DOMAIN es /\ es[idx].tag = "Ok"

ReadyEvent(idx) == [type |-> "ready", index |-> idx]

ErrorEvent(idx) == [type |-> "error", index |-> idx]

\* Box.owned of the PoolItem
Owned(its, id) == its[id].state = "owned"

\* A Disposer fresh from the creator, wrapped in a PoolItem by set
NewItem(idx) ==
  [index |-> idx, state |-> "owned", cleaned |-> 0, disposed |-> 0, committed |-> TRUE]

\* A Disposer fresh from the creator that the stack of #create disposes at once:
\* the value's disposer and the entry cleanup both run, no PoolItem is made
DiscardedItem(idx) ==
  [index |-> idx, state |-> "dropped", cleaned |-> 1, disposed |-> 1, committed |-> FALSE]

\* PoolItem[Symbol.dispose]: Box[Symbol.dispose] disposes the value when the
\* box is owned and drops the box; then the entry cleanup (this.clean) runs
DisposeItem(its, id) ==
  [its EXCEPT ![id] = [@ EXCEPT !.state = "dropped",
                                !.disposed = IF its[id].state = "owned" THEN @ + 1 ELSE @,
                                !.cleaned = @ + 1]]

\* The pool as a value: its entries and the items they refer to
ThePool == [entries |-> entries, items |-> items]

DeleteKeepsEntry(p, idx) ==
  IF IsOk(p.entries, idx)
    THEN [p EXCEPT !.items = DisposeItem(p.items, p.entries[idx].item)]
    ELSE [p EXCEPT !.entries = Without(p.entries, idx)]

\* Pool.delete(index)
DeleteIn(p, idx) ==
  IF IsOk(p.entries, idx)
    THEN [entries |-> Without(p.entries, idx),
          items |-> DisposeItem(p.items, p.entries[idx].item)]
    ELSE [p EXCEPT !.entries = Without(p.entries, idx)]

\* Pool.set(index, Ok(disposer)), the new PoolItem being id
SetOkIn(p, idx, id) ==
  LET q == DeleteIn([p EXCEPT !.items = (id :> NewItem(idx)) @@ p.items], idx)
  IN  [q EXCEPT !.entries = With(q.entries, idx, OkEntry(id))]

SetErrDropsError(p, idx, e) == DeleteIn(p, idx)

\* Pool.set(index, Err(error))
SetErrIn(p, idx, e) ==
  LET q == DeleteIn(p, idx)
  IN  [q EXCEPT !.entries = With(q.entries, idx, ErrEntry(e))]

RECURSIVE DisposeAll(_, _)
\* Pool[Symbol.dispose]: every Ok entry's item is disposed, then the array is emptied
DisposeAll(p, todo) ==
  IF todo = {}
    THEN [p EXCEPT !.entries = Empty]
    ELSE LET idx == CHOOSE x \in todo : \A y \in todo : x <= y
             q == IF IsOk(p.entries, idx)
                    THEN [p EXCEPT !.items = DisposeItem(p.items, p.entries[idx].item)]
                    ELSE p
         IN  DisposeAll(q, todo \ { idx })

CandidatesAny(p) == { idx \in Indexes : IsOk(p.entries, idx) }

\* this.#entries.filter(x => x != null && x.isOk() && x.get().owned)
Candidates(p) ==
  { idx \in Indexes : IsOk(p.entries, idx) /\ Owned(p.items, p.entries[idx].item) }

AbortedNone(ctl, idx) == ctl

\* StartPool.abort(index): the controllers after aborter.abort()
Aborted(ctl, idx) ==
  IF idx \in DOMAIN aborters
    THEN [ctl EXCEPT ![aborters[idx]].aborted = TRUE]
    ELSE ctl

Waiters == 1..MaxWaiters

\* The index a listener of every ready event stands for
AnyIndex == -1

\* A caller that has not called yet
NoWaiter == [pc |-> "idle", kind |-> "none", index |-> AnyIndex, item |-> 0, aborted |-> FALSE]

\* events.emit("ready", index): the listeners registered by Plume.waitOrThrow
\* resolve the future of every waiter on that index (of every waiter on any
\* index for the random waits)
Woken(ws, events) ==
  [w \in Waiters |->
     IF /\ ws[w].pc = "waiting"
        /\ \E k \in DOMAIN events :
             /\ events[k].type = "ready"
             /\ ws[w].index \in { events[k].index, AnyIndex }
       THEN [ws[w] EXCEPT !.pc = "woken"]
       ELSE ws[w]]

\* The pool is a StartPool made by its own constructor
NotAuto == -1

\* StartPool.start(index, creator) as a function of the pool's fields
StartedIn(st, idx) ==
  LET ctl == IF idx \in DOMAIN st.aborters
               THEN [st.controllers EXCEPT ![st.aborters[idx]].aborted = TRUE]
               ELSE st.controllers
      id == Len(ctl) + 1
  IN  [ controllers |-> Append(ctl, [index |-> idx, aborted |-> FALSE]),
        aborters |-> With(st.aborters, idx, id),
        creating |-> st.creating \cup { id } ]

\* The fields of a StartPool after super()
NoStarts == [controllers |-> << >>, aborters |-> Empty, creating |-> {}]

RECURSIVE AutoStart(_, _, _)
\* for (let i = ...; i < capacity; i++) this.start(i, creator)
AutoStart(st, idx, capacity) ==
  IF idx < capacity THEN AutoStart(StartedIn(st, idx), idx + 1, capacity) ELSE st

AutoPoolSkipsFirst(capacity) == AutoStart(NoStarts, 1, capacity)

\* new AutoPool(creator, capacity)
AutoPool(capacity) == AutoStart(NoStarts, 0, capacity)

\* The state after new AutoPool(creator, capacity), for the capacities that
\* fit the indexes
InitAutoPool ==
  \E capacity \in 0..NumIndexes :
    /\ autoCapacity = capacity
    /\ controllers = AutoPool(capacity).controllers
    /\ aborters = AutoPool(capacity).aborters
    /\ creating = AutoPool(capacity).creating
    /\ entries = Empty
    /\ items = << >>
    /\ emitted = << >>
    /\ got = NotGot
    /\ waiters = [w \in Waiters |-> NoWaiter]

InitItems ==
  /\ entries = Empty
  /\ aborters = Empty
  /\ controllers = << >>
  /\ creating = {}
  /\ items = << >>
  /\ emitted = << >>
  /\ got = NotGot
  /\ waiters = [w \in Waiters |-> NoWaiter]
  /\ autoCapacity = NotAuto

\* StartPool.start(index, creator)
Start(idx) ==
  /\ Len(controllers) < MaxStarts
  /\ LET id == Len(controllers) + 1
     IN  /\ controllers' = Append(Aborted(controllers, idx), [index |-> idx, aborted |-> FALSE])
         /\ aborters' = With(aborters, idx, id)
         /\ creating' = creating \cup { id }
  /\ emitted' = << >>
  /\ UNCHANGED << entries, items, got >>
  /\ waiters' = Woken(waiters, emitted')
  /\ UNCHANGED << autoCapacity, takeVars, capVars, loopVars >>

\* StartPool.abort(index)
Abort(idx) ==
  /\ controllers' = Aborted(controllers, idx)
  /\ aborters' = Without(aborters, idx)
  /\ emitted' = << >>
  /\ UNCHANGED << entries, creating, items, got >>
  /\ waiters' = Woken(waiters, emitted')
  /\ UNCHANGED << autoCapacity, takeVars, capVars, loopVars >>

CreateResolveUnchecked(id) ==
  /\ id \in creating
  /\ creating' = creating \ { id }
  /\ LET idx == controllers[id].index
         q == SetOkIn(ThePool, idx, id)
     IN  /\ aborters' = Without(aborters, idx)
         /\ entries' = q.entries
         /\ items' = q.items
         /\ emitted' = << ReadyEvent(idx) >>
  /\ UNCHANGED << controllers, got >>
  /\ waiters' = Woken(waiters, emitted')
  /\ UNCHANGED << autoCapacity, takeVars, capVars, loopVars >>

\* StartPool.#create, the creator's promise resolving with a Disposer
CreateResolve(id) ==
  /\ id \in creating
  /\ creating' = creating \ { id }
  /\ LET idx == controllers[id].index
         q == SetOkIn(ThePool, idx, id)
     IN  IF controllers[id].aborted
           THEN /\ items' = (id :> DiscardedItem(idx)) @@ items
                /\ emitted' = << >>
                /\ UNCHANGED << entries, aborters >>
           ELSE /\ aborters' = Without(aborters, idx)
                /\ entries' = q.entries
                /\ items' = q.items
                /\ emitted' = << ReadyEvent(idx) >>
  /\ UNCHANGED << controllers, got >>
  /\ waiters' = Woken(waiters, emitted')
  /\ UNCHANGED << autoCapacity, takeVars, capVars, loopVars >>

\* StartPool.#create, the creator's promise rejecting with e
CreateReject(id, e) ==
  /\ id \in creating
  /\ creating' = creating \ { id }
  /\ LET idx == controllers[id].index
         q == SetErrIn(ThePool, idx, e)
     IN  IF controllers[id].aborted
           THEN /\ emitted' = << >>
                /\ UNCHANGED << entries, aborters, items >>
           ELSE /\ aborters' = Without(aborters, idx)
                /\ entries' = q.entries
                /\ items' = q.items
                /\ emitted' = << ErrorEvent(idx) >>
  /\ UNCHANGED << controllers, got >>
  /\ waiters' = Woken(waiters, emitted')
  /\ UNCHANGED << autoCapacity, takeVars, capVars, loopVars >>

\* Pool.delete(index), called on the pool
Delete(idx) ==
  /\ idx \in DOMAIN entries
  /\ LET q == DeleteIn(ThePool, idx)
     IN  /\ entries' = q.entries
         /\ items' = q.items
  /\ emitted' = << >>
  /\ UNCHANGED << aborters, controllers, creating, got >>
  /\ waiters' = Woken(waiters, emitted')
  /\ UNCHANGED << autoCapacity, takeVars, capVars, loopVars >>

DisposeAbortsNone(ctl) == ctl

\* StartPool[Symbol.dispose]: the controllers after aborter?.abort() for
\* every aborter of this.#aborters
AbortedAll(ctl) ==
  [id \in DOMAIN ctl |->
     IF \E idx \in DOMAIN aborters : aborters[idx] = id
       THEN [ctl[id] EXCEPT !.aborted = TRUE]
       ELSE ctl[id]]

\* StartPool[Symbol.dispose]
DisposePool ==
  /\ LET q == DisposeAll(ThePool, Indexes)
     IN  /\ entries' = q.entries
         /\ items' = q.items
  /\ controllers' = AbortedAll(controllers)
  /\ aborters' = Empty
  /\ emitted' = << >>
  /\ UNCHANGED << creating, got >>
  /\ waiters' = Woken(waiters, emitted')
  /\ UNCHANGED << autoCapacity, takeVars, capVars, loopVars >>

\* The items a caller can hold a reference to
Held == { id \in DOMAIN items : items[id].committed }

\* Box.moveOrThrow / Box.unwrapOrThrow of an owned box, then pool.delete(this.index)
TakenOut(id) ==
  DeleteIn([ThePool EXCEPT !.items[id].state = "dropped"], items[id].index)

\* PoolItem.moveOrThrow (it throws, changing nothing, unless the box is owned)
ItemMove(id) ==
  /\ Owned(items, id)
  /\ entries' = TakenOut(id).entries
  /\ items' = TakenOut(id).items
  /\ emitted' = << >>
  /\ UNCHANGED << aborters, controllers, creating, got >>
  /\ waiters' = Woken(waiters, emitted')
  /\ UNCHANGED << autoCapacity, takeVars, capVars, loopVars >>

\* PoolItem.unwrapOrThrow (it throws, changing nothing, unless the box is owned)
ItemUnwrap(id) ==
  /\ Owned(items, id)
  /\ entries' = TakenOut(id).entries
  /\ items' = TakenOut(id).items
  /\ emitted' = << >>
  /\ UNCHANGED << aborters, controllers, creating, got >>
  /\ waiters' = Woken(waiters, emitted')
  /\ UNCHANGED << autoCapacity, takeVars, capVars, loopVars >>

\* item[Symbol.dispose]() called by a holder of the PoolItem
ItemDispose(id) ==
  /\ items[id].cleaned < MaxDisposals
  /\ items' = DisposeItem(items, id)
  /\ emitted' = << >>
  /\ UNCHANGED << entries, aborters, controllers, creating, got >>
  /\ waiters' = Woken(waiters, emitted')
  /\ UNCHANGED << autoCapacity, takeVars, capVars, loopVars >>

\* PoolItem.borrowOrThrow (Box.borrowOrThrow: it throws unless the box is owned)
ItemBorrow(id) ==
  /\ Owned(items, id)
  /\ items' = [items EXCEPT ![id].state = "borrowed"]
  /\ emitted' = << >>
  /\ UNCHANGED << entries, aborters, controllers, creating, got >>
  /\ waiters' = Woken(waiters, emitted')
  /\ UNCHANGED << autoCapacity, takeVars, capVars, loopVars >>

UpdateSilent(idx) == << >>

\* Pool.update(index)
Update(idx) == IF IsOk(entries, idx) THEN << ReadyEvent(idx) >> ELSE << >>

\* PoolItem.returnOrThrow, called when the Borrow is disposed
ItemReturn(id) ==
  /\ items[id].state = "borrowed"
  /\ items' = [items EXCEPT ![id].state = "owned"]
  /\ emitted' = Update(items[id].index)
  /\ UNCHANGED << entries, aborters, controllers, creating, got >>
  /\ waiters' = Woken(waiters, emitted')
  /\ UNCHANGED << autoCapacity, takeVars, capVars, loopVars >>

\* Pool.getAnyOrThrow(index): the entry of the slot, or EmptySlotError
GotAnyOrThrow(p, idx) ==
  IF idx \notin DOMAIN p.entries
    THEN [kind |-> "EmptySlotError", id |-> 0]
    ELSE IF IsOk(p.entries, idx)
           THEN [kind |-> "Ok", id |-> p.entries[idx].item]
           ELSE [kind |-> "Err", id |-> 0]

GotOrThrowErrAsEmpty(p, idx) ==
  IF idx \notin DOMAIN p.entries \/ ~IsOk(p.entries, idx)
    THEN [kind |-> "EmptySlotError", id |-> 0]
    ELSE [kind |-> "item", id |-> p.entries[idx].item]

\* Pool.getOrThrow(index): the item of an Ok entry, the error of an Err entry
\* thrown by entry.getOrThrow(), or EmptySlotError
GotOrThrow(p, idx) ==
  IF idx \notin DOMAIN p.entries
    THEN [kind |-> "EmptySlotError", id |-> 0]
    ELSE IF IsOk(p.entries, idx)
           THEN [kind |-> "item", id |-> p.entries[idx].item]
           ELSE [kind |-> "thrown", id |-> 0]

\* Pool.getAnyOrThrow
GetAnyOrThrow(idx) ==
  /\ got' = GotAnyOrThrow(ThePool, idx)
  /\ emitted' = << >>
  /\ UNCHANGED << entries, aborters, controllers, creating, items >>
  /\ waiters' = Woken(waiters, emitted')
  /\ UNCHANGED << autoCapacity, takeVars, capVars, loopVars >>

\* Pool.getOrThrow
GetOrThrow(idx) ==
  /\ got' = GotOrThrow(ThePool, idx)
  /\ emitted' = << >>
  /\ UNCHANGED << entries, aborters, controllers, creating, items >>
  /\ waiters' = Woken(waiters, emitted')
  /\ UNCHANGED << autoCapacity, takeVars, capVars, loopVars >>

\* What getRandomOrThrow / getCryptoRandomOrThrow can return
RandomResults ==
  IF Candidates(ThePool) = {}
    THEN { [kind |-> "EmptyPoolError", id |-> 0] }
    ELSE { [kind |-> "item", id |-> entries[idx].item] : idx \in Candidates(ThePool) }

\* Pool.getRandomOrThrow
GetRandomOrThrow ==
  /\ got' \in RandomResults
  /\ emitted' = << >>
  /\ UNCHANGED << entries, aborters, controllers, creating, items >>
  /\ waiters' = Woken(waiters, emitted')
  /\ UNCHANGED << autoCapacity, takeVars, capVars, loopVars >>

\* Pool.getCryptoRandomOrThrow
GetCryptoRandomOrThrow ==
  /\ got' \in RandomResults
  /\ emitted' = << >>
  /\ UNCHANGED << entries, aborters, controllers, creating, items >>
  /\ waiters' = Woken(waiters, emitted')
  /\ UNCHANGED << autoCapacity, takeVars, capVars, loopVars >>

\* ---- the blocking operations
\* getOrWaitOrThrow, unwrapOrWaitOrThrow, moveOrWaitOrThrow, borrowOrWaitOrThrow
IndexWaits ==
  { "getOrWaitOrThrow", "unwrapOrWaitOrThrow", "moveOrWaitOrThrow", "borrowOrWaitOrThrow" }

\* getRandomOrWaitOrThrow, getCryptoRandomOrWaitOrThrow
RandomWaits == { "getRandomOrWaitOrThrow", "getCryptoRandomOrWaitOrThrow" }

\* getOrWaitOrThrow of src/unnamed/part_005, which returns the PoolItem
ItemWait == "getOrWaitOrThrow (PoolItem)"

\* Callers are alike: they call in order of id
WaitersInTurn(w) == \A u \in Waiters : u < w => waiters[u].pc # "idle"

PassesBorrowed(kind, idx) == IsOk(entries, idx)

\* The test at the head of the while (true) loop of a blocking operation
Passes(kind, idx) ==
  IF kind = "getOrWaitOrThrow"
    THEN IsOk(entries, idx)
    ELSE IsOk(entries, idx) /\ Owned(items, entries[idx].item)

\* One turn of the while (true) loop: the test, then the return or
\* await Plume.waitOrThrow(this.events, "ready", ..., signal)
Attempt(w, kind, idx) ==
  LET me == [waiters[w] EXCEPT !.kind = kind, !.index = idx]
      parked == [me EXCEPT !.pc = IF me.aborted THEN "rejected" ELSE "waiting"]
      park == /\ waiters' = [waiters EXCEPT ![w] = parked]
              /\ UNCHANGED << entries, items >>
  IN  /\ IF kind \in RandomWaits
           THEN IF Candidates(ThePool) = {}
                  THEN park
                  ELSE /\ \E c \in Candidates(ThePool) :
                            waiters' = [waiters EXCEPT ![w] =
                                          [me EXCEPT !.pc = "done", !.item = entries[c].item]]
                       /\ UNCHANGED << entries, items >>
           ELSE IF ~Passes(kind, idx)
                  THEN park
                  ELSE LET id == entries[idx].item
                       IN  CASE kind = "getOrWaitOrThrow" ->
                                  /\ waiters' = [waiters EXCEPT ![w] =
                                                   [me EXCEPT !.pc = "done", !.item = id]]
                                  /\ UNCHANGED << entries, items >>
                             [] kind = ItemWait ->
                                  /\ waiters' = [waiters EXCEPT ![w] =
                                                   [me EXCEPT !.pc = "got", !.item = id]]
                                  /\ UNCHANGED << entries, items >>
                             [] kind = "borrowOrWaitOrThrow" ->
                                  /\ waiters' = [waiters EXCEPT ![w] =
                                                   [me EXCEPT !.pc = "borrowed", !.item = id]]
                                  /\ items' = [items EXCEPT ![id].state = "borrowed"]
                                  /\ UNCHANGED entries
                             [] OTHER ->
                                  /\ waiters' = [waiters EXCEPT ![w] =
                                                   [me EXCEPT !.pc = "done", !.item = id]]
                                  /\ entries' = TakenOut(id).entries
                                  /\ items' = TakenOut(id).items
      /\ emitted' = << >>
      /\ UNCHANGED << aborters, controllers, creating, got >>
      /\ UNCHANGED << autoCapacity, takeVars, capVars, loopVars >>

\* The callers so far all called this operation
SameKind(kind) == \A u \in Waiters : waiters[u].pc # "idle" => waiters[u].kind = kind

\* A caller calls a blocking operation
WaitCall(w, kind, idx) ==
  /\ waiters[w].pc = "idle"
  /\ WaitersInTurn(w)
  /\ Attempt(w, kind, idx)

\* A caller calls the operation the other callers called
WaitCallSame(w, kind, idx) == SameKind(kind) /\ WaitCall(w, kind, idx)

\* A waiter whose future was resolved by a ready event runs the loop again
WaitResume(w) ==
  /\ waiters[w].pc = "woken"
  /\ Attempt(w, waiters[w].kind, waiters[w].index)

SignalRejectsAll(ws, w) ==
  [u \in Waiters |-> IF ws[u].pc = "waiting"
                     THEN [ws[u] EXCEPT !.pc = "rejected", !.aborted = TRUE]
                     ELSE ws[u]]

\* The callers after the signal of caller w fired: its pending wait rejects;
\* a wait already resolved by a ready event stays resolved
Signalled(ws, w) ==
  [ws EXCEPT ![w].aborted = TRUE,
             ![w].pc = IF @ = "waiting" THEN "rejected" ELSE @]

\* The caller aborts the signal it passed: a pending Plume.waitOrThrow rejects
WaitAbort(w) ==
  /\ waiters[w].pc \in { "waiting", "woken" }
  /\ ~waiters[w].aborted
  /\ waiters' = Signalled(waiters, w)
  /\ emitted' = << >>
  /\ UNCHANGED << entries, aborters, controllers, creating, items, got >>
  /\ UNCHANGED << autoCapacity, takeVars, capVars, loopVars >>

\* box.borrowOrThrow() by the caller that got the PoolItem
WaiterBorrow(w) ==
  /\ waiters[w].pc = "got"
  /\ IF Owned(items, waiters[w].item)
       THEN /\ items' = [items EXCEPT ![waiters[w].item].state = "borrowed"]
            /\ waiters' = [waiters EXCEPT ![w].pc = "borrowed"]
       ELSE /\ waiters' = [waiters EXCEPT ![w].pc = "thrown"]
            /\ UNCHANGED items
  /\ emitted' = << >>
  /\ UNCHANGED << entries, aborters, controllers, creating, got >>
  /\ UNCHANGED << autoCapacity, takeVars, capVars, loopVars >>

\* The caller disposes its Borrow: PoolItem.returnOrThrow, then pool.update
WaiterReturn(w) ==
  /\ waiters[w].pc = "borrowed"
  /\ LET id == waiters[w].item
     IN  IF items[id].state = "borrowed"
           THEN /\ items' = [items EXCEPT ![id].state = "owned"]
                /\ emitted' = Update(items[id].index)
           ELSE /\ emitted' = << >>
                /\ UNCHANGED items
  /\ waiters' = Woken([waiters EXCEPT ![w].pc = "done"], emitted')
  /\ UNCHANGED << entries, aborters, controllers, creating, got >>
  /\ UNCHANGED << autoCapacity, takeVars, capVars, loopVars >>

Next ==
  \/ \E idx \in Indexes : Start(idx)
  \/ \E idx \in Indexes : Abort(idx)
  \/ \E id \in creating : CreateResolve(id)
  \/ \E id \in creating, e \in CreatorErrors : CreateReject(id, e)
  \/ \E idx \in Indexes : Delete(idx)
  \/ DisposePool
  \/ \E id \in Held : ItemMove(id)
  \/ \E id \in Held : ItemUnwrap(id)
  \/ \E id \in Held : ItemBorrow(id)
  \/ \E id \in Held : ItemReturn(id)
  \/ GetRandomOrThrow
  \/ GetCryptoRandomOrThrow

\* pool.start(index, creator) on a slot never started, slots taken in order of
\* index: what new AutoPool(creator, capacity) does
StartFresh(idx) ==
  /\ \A id \in DOMAIN controllers : controllers[id].index < idx
  /\ \A lower \in 0..(idx - 1) : \E id \in DOMAIN controllers : controllers[id].index = lower
  /\ Start(idx)

\* The Item pool with callers of its blocking operations, and other callers
\* that borrow and return items
NextWait ==
  \/ \E idx \in Indexes : Start(idx)
  \/ \E id \in creating : CreateResolve(id)
  \/ \E id \in creating, e \in CreatorErrors : CreateReject(id, e)
  \/ \E idx \in Indexes : Delete(idx)
  \/ \E id \in Held : ItemBorrow(id)
  \/ \E id \in Held : ItemReturn(id)
  \/ \E w \in Waiters, idx \in Indexes : WaitCall(w, "getOrWaitOrThrow", idx)
  \/ \E w \in Waiters : WaitResume(w)

\* The Item pool with succeeding creators and callers of borrowOrWaitOrThrow,
\* who return their borrow
NextBorrow ==
  \/ \E idx \in Indexes : Start(idx)
  \/ \E id \in creating : CreateResolve(id)
  \/ \E idx \in Indexes : Delete(idx)
  \/ \E w \in Waiters, idx \in Indexes : WaitCall(w, "borrowOrWaitOrThrow", idx)
  \/ \E w \in Waiters : WaitResume(w)
  \/ \E w \in Waiters : WaiterReturn(w)

\* The same, no slot being deleted
NextBorrowLive ==
  \/ \E idx \in Indexes : Start(idx)
  \/ \E id \in creating : CreateResolve(id)
  \/ \E w \in Waiters, idx \in Indexes : WaitCall(w, "borrowOrWaitOrThrow", idx)
  \/ \E w \in Waiters : WaitResume(w)
  \/ \E w \in Waiters : WaiterReturn(w)

\* An AutoPool whose creators succeed, with callers of borrowOrWaitOrThrow
NextAuto ==
  \/ \E id \in creating : CreateResolve(id)
  \/ \E w \in Waiters, idx \in Indexes : WaitCall(w, "borrowOrWaitOrThrow", idx)
  \/ \E w \in Waiters : WaitResume(w)
  \/ \E w \in Waiters : WaiterReturn(w)

\* An AutoPool whose creators succeed, with callers that borrow items and
\* callers that take them out with moveOrThrow or unwrapOrThrow
NextAutoTake ==
  \/ \E id \in creating : CreateResolve(id)
  \/ \E w \in Waiters, idx \in Indexes : WaitCall(w, "borrowOrWaitOrThrow", idx)
  \/ \E w \in Waiters : WaitResume(w)
  \/ \E w \in Waiters : WaiterReturn(w)
  \/ \E id \in Held : ItemMove(id)
  \/ \E id \in Held : ItemUnwrap(id)

\* The Item pool with callers that await getOrWaitOrThrow for the PoolItem,
\* borrow it with borrowOrThrow and return the borrow
NextGetBorrow ==
  \/ \E idx \in Indexes : StartFresh(idx)
  \/ \E id \in creating : CreateResolve(id)
  \/ \E w \in Waiters, idx \in Indexes : WaitCall(w, ItemWait, idx)
  \/ \E w \in Waiters : WaitResume(w)
  \/ \E w \in Waiters : WaiterBorrow(w)
  \/ \E w \in Waiters : WaiterReturn(w)

\* The Item pool with callers of every blocking operation, who may abort the
\* signal they passed
NextWaitAbort ==
  \/ \E idx \in Indexes : StartFresh(idx)
  \/ \E id \in creating : CreateResolve(id)
  \/ \E id \in Held : ItemBorrow(id)
  \/ \E id \in Held : ItemReturn(id)
  \/ \E w \in Waiters, kind \in IndexWaits, idx \in Indexes : WaitCallSame(w, kind, idx)
  \/ \E w \in Waiters, kind \in RandomWaits : WaitCallSame(w, kind, AnyIndex)
  \/ \E w \in Waiters : WaitResume(w)
  \/ \E w \in Waiters : WaitAbort(w)
  \/ \E w \in Waiters : WaiterReturn(w)

\* The Item pool with callers of the getters by index
NextGet ==
  \/ Next
  \/ \E idx \in Indexes : GetAnyOrThrow(idx)
  \/ \E idx \in Indexes : GetOrThrow(idx)

\* The Item pool with holders that also dispose the PoolItems themselves
NextDispose ==
  \/ Next
  \/ \E id \in Held : ItemDispose(id)

\* ------------------------------------------------- claims on the Item pool
\* The item is the Ok entry of its slot
InPool(id) == IsOk(entries, items[id].index) /\ entries[items[id].index].item = id

\* The constructions of index idx still in flight whose token is not aborted
Live(idx) ==
  { id \in creating : controllers[id].index = idx /\ ~controllers[id].aborted }

\* C1: for every Item ever committed to a slot, whatever moves, unwraps,
\* deletes and teardowns happen, the entry cleanup has run never more than
\* once, not at all while the Item is still the entry of its slot, and exactly
\* once as soon as it is not.
C1_CleanupExactlyOnce ==
  \A id \in Held : items[id].cleaned = (IF InPool(id) THEN 0 ELSE 1)

C1_Witness ==
  \E id \in Held, other \in Held :
    /\ id # other
    /\ ~InPool(id) /\ items[id].cleaned = 1 /\ items[id].disposed = 0
    /\ ~InPool(other) /\ items[other].cleaned = 1 /\ items[other].disposed = 1
    /\ entries = Empty

\* C2: when the creator of a construction resolves after that construction's
\* token was aborted, the created value and its entry cleanup are both
\* disposed (once each), the resource is not committed, no event is emitted,
\* and entries and aborters are left as they were.
C2_AbortedCreationDiscarded ==
  [][\A id \in creating :
       (CreateResolve(id) /\ controllers[id].aborted)
         => /\ entries' = entries
            /\ aborters' = aborters
            /\ emitted' = << >>
            /\ ~items'[id].committed
            /\ items'[id].cleaned = 1
            /\ items'[id].disposed = 1
            /\ \A other \in DOMAIN items : items'[other] = items[other]]_vars

C2_Witness ==
  \E id \in DOMAIN items :
    /\ ~items[id].committed
    /\ items[id].index \notin DOMAIN entries
    /\ items[id].index \notin DOMAIN aborters
    /\ emitted = << >>

\* C3: start(index) aborts the token of the construction it supersedes, so at
\* any time at most one construction per index is in flight with a token that
\* is not aborted, it is the one start made last for that index and the one
\* #aborters holds; and a creator settling changes the slot's entry only when
\* it belongs to that construction.
C3_AtMostOneLiveConstruction ==
  [][/\ \A idx \in Indexes :
          /\ Cardinality(Live(idx))' <= 1
          /\ \A id \in Live(idx)' :
               /\ idx \in DOMAIN aborters' /\ aborters'[idx] = id
               /\ \A later \in DOMAIN controllers' :
                    controllers'[later].index = idx => later <= id
     /\ \A id \in creating :
          (/\ CreateResolve(id) \/ \E e \in CreatorErrors : CreateReject(id, e)
           /\ entries' # entries)
            => /\ id \in Live(controllers[id].index)
               /\ \A other \in DOMAIN entries' :
                    other # controllers[id].index => /\ other \in DOMAIN entries
                                                     /\ entries'[other] = entries[other]]_vars

C3_Witness ==
  \E idx \in Indexes, id \in creating, old \in creating :
    /\ old < id
    /\ controllers[id].index = idx
    /\ controllers[old].index = idx
    /\ controllers[old].aborted
    /\ Live(idx) = { id }

\* C4: getRandomOrThrow and getCryptoRandomOrThrow never return an Item that is
\* borrowed (or otherwise not owned) when they are called; and returning the
\* borrow of an Item that is still the entry of its slot makes that Item a
\* possible result of the next call.
C4_BorrowedNeverPicked ==
  [][/\ (GetRandomOrThrow \/ GetCryptoRandomOrThrow)
          => /\ got'.kind = "item" => (InPool(got'.id) /\ items[got'.id].state = "owned")
             /\ got'.kind = "EmptyPoolError" =>
                  \A id \in Held : InPool(id) => items[id].state # "owned"
     /\ \A id \in Held :
          (ItemBorrow(id) /\ InPool(id))
            => [kind |-> "item", id |-> id] \notin RandomResults'
     /\ \A id \in Held :
          (ItemReturn(id) /\ InPool(id))
            => [kind |-> "item", id |-> id] \in RandomResults']_vars

C4_Witness ==
  \E id \in Held :
    /\ InPool(id)
    /\ items[id].state = "owned"
    /\ Len(controllers) = 1
    /\ creating = {}
    /\ got = [kind |-> "item", id |-> id]
    /\ emitted = << ReadyEvent(items[id].index) >>

\* ========================================================= start/stop pool
Takers == 1..MaxTakers

\* The elements of a Set kept in insertion order
Elements(seq) == { seq[k] : k \in DOMAIN seq }

\* Set.prototype.delete
Remove(seq, v) == SelectSeq(seq, LAMBDA x : x # v)

StartedEvent(idx) == [type |-> "started", index |-> idx]

CreatedEvent(id) == [type |-> "created", entry |-> id]

DeletedEvent(id) == [type |-> "deleted", entry |-> id]

\* new Pool(creator)
NewPool ==
  [ allAborters |-> Empty,     \* #allAborters: index -> AbortController
    allPromises |-> Empty,     \* #allPromises: index -> entry promise
    anyPromises |-> {},        \* #anyPromises
    allOkPromises |-> Empty,   \* #allOkPromises: index -> ok promise
    okPromises |-> {},         \* #okPromises
    allEntries |-> Empty,      \* #allEntries: index -> entry
    anyEntries |-> {},         \* #anyEntries
    okEntries |-> {},          \* #okEntries
    errEntries |-> {},         \* #errEntries
    allValues |-> Empty,       \* #allValues: index -> value
    values |-> << >>,          \* #values, a Set: in insertion order
    constructions |-> << >>,   \* every start so far: its index, signal and entry promise
    resources |-> << >>,       \* what the creators returned or threw, by construction
    emitted |-> << >> ]        \* the events emitted by the last operation

\* A construction: one call of #createOrThrow.  Its id names its
\* AbortController, its entry promise, its ok promise, its entry and its value.
\* promise is the state of the entry promise: "pending", "ok" (resolved with an
\* Ok entry), "err" (resolved with an Err entry) or "rejected" (aborted).
NewConstruction(idx, by) ==
  [index |-> idx, aborted |-> FALSE, promise |-> "pending", by |-> by]

\* this.size
Size(p) == Len(p.values)

StartAgain(p, idx, by) ==
  LET id == Len(p.constructions) + 1
  IN  [p EXCEPT !.constructions = Append(@, NewConstruction(idx, by)),
                !.allAborters = With(@, idx, id),
                !.allPromises = With(@, idx, id),
                !.anyPromises = @ \cup { id },
                !.allOkPromises = With(@, idx, id),
                !.okPromises = @ \cup { id },
                !.emitted = Append(@, StartedEvent(idx))]

StartForgetsOkPromise(p, idx, by) ==
  IF idx \in DOMAIN p.allPromises
    THEN p
    ELSE LET id == Len(p.constructions) + 1
         IN  [p EXCEPT !.constructions = Append(@, NewConstruction(idx, by)),
                       !.allAborters = With(@, idx, id),
                       !.allPromises = With(@, idx, id),
                       !.anyPromises = @ \cup { id },
                       !.emitted = Append(@, StartedEvent(idx))]

\* Pool.start(index); by names the caller, for the record
StartIn(p, idx, by) ==
  IF idx \in DOMAIN p.allPromises
    THEN p
    ELSE LET id == Len(p.constructions) + 1
         IN  [p EXCEPT !.constructions = Append(@, NewConstruction(idx, by)),
                       !.allAborters = With(@, idx, id),
                       !.allPromises = With(@, idx, id),
                       !.anyPromises = @ \cup { id },
                       !.allOkPromises = With(@, idx, id),
                       !.okPromises = @ \cup { id },
                       !.emitted = Append(@, StartedEvent(idx))]

StopLeavesOkPromise(p, idx) ==
  [p EXCEPT !.constructions =
              IF idx \in DOMAIN p.allAborters
                THEN [@ EXCEPT ![p.allAborters[idx]].aborted = TRUE]
                ELSE @,
            !.allAborters = Without(@, idx),
            !.anyPromises =
              IF idx \in DOMAIN p.allPromises THEN @ \ { p.allPromises[idx] } ELSE @,
            !.allPromises = Without(@, idx),
            !.allOkPromises = Without(@, idx),
            !.values =
              IF idx \in DOMAIN p.allValues THEN Remove(@, p.allValues[idx]) ELSE @,
            !.allValues = Without(@, idx)]

\* The first half of Pool.stop(index): aborter, promises and value
StopPromisesIn(p, idx) ==
  [p EXCEPT !.constructions =
              IF idx \in DOMAIN p.allAborters
                THEN [@ EXCEPT ![p.allAborters[idx]].aborted = TRUE]
                ELSE @,
            !.allAborters = Without(@, idx),
            !.anyPromises =
              IF idx \in DOMAIN p.allPromises THEN @ \ { p.allPromises[idx] } ELSE @,
            !.allPromises = Without(@, idx),
            !.okPromises =
              IF idx \in DOMAIN p.allOkPromises THEN @ \ { p.allOkPromises[idx] } ELSE @,
            !.allOkPromises = Without(@, idx),
            !.values =
              IF idx \in DOMAIN p.allValues THEN Remove(@, p.allValues[idx]) ELSE @,
            !.allValues = Without(@, idx)]

StopKeepsOkEntry(p, idx) ==
  LET q == StopPromisesIn(p, idx)
  IN  IF idx \notin DOMAIN q.allEntries
        THEN q
        ELSE LET entry == q.allEntries[idx]
             IN  [q EXCEPT !.resources =
                             IF q.resources[entry].kind = "disposer"
                               THEN [@ EXCEPT ![entry].cleaned = @ + 1]
                               ELSE @,
                           !.errEntries = @ \ { entry },
                           !.anyEntries = @ \ { entry },
                           !.allEntries = Without(@, idx),
                           !.emitted = Append(@, DeletedEvent(entry))]

\* Pool.stop(index)
StopIn(p, idx) ==
  LET q == StopPromisesIn(p, idx)
  IN  IF idx \notin DOMAIN q.allEntries
        THEN q
        ELSE LET entry == q.allEntries[idx]
             IN  [q EXCEPT !.resources =
                             IF q.resources[entry].kind = "disposer"
                               THEN [@ EXCEPT ![entry].cleaned = @ + 1]
                               ELSE @,
                           !.okEntries = @ \ { entry },
                           !.errEntries = @ \ { entry },
                           !.anyEntries = @ \ { entry },
                           !.allEntries = Without(@, idx),
                           !.emitted = Append(@, DeletedEvent(entry))]

\* Pool.restart(index)
RestartIn(p, idx, by) == StartIn(StopIn(p, idx), idx, by)

\* A Disposer<Box<T>> a creator returned: the state of the inner box and how
\* often the entry cleanup (Disposer.dispose) has run
NewResource == [kind |-> "disposer", box |-> "owned", cleaned |-> 0]

\* The error a creator call threw: every failing call throws an error of its own
Thrown(id) == [kind |-> "error", error |-> [name |-> "Error", id |-> id]]

CreatedUnchecked(p, id) ==
  LET idx == p.constructions[id].index
  IN  [p EXCEPT !.constructions[id].promise = "ok",
                !.resources = (id :> NewResource) @@ @,
                !.allEntries = With(@, idx, id),
                !.anyEntries = @ \cup { id },
                !.okEntries = @ \cup { id },
                !.allValues = With(@, idx, id),
                !.values = Append(@, id),
                !.emitted = Append(@, CreatedEvent(id))]

\* #createOrThrow after the creator resolved with a Disposer
CreatedIn(p, id) ==
  LET idx == p.constructions[id].index
  IN  IF p.constructions[id].aborted
        THEN [p EXCEPT !.constructions[id].promise = "rejected",
                       !.resources = (id :> [NewResource EXCEPT !.cleaned = 1]) @@ @]
        ELSE [p EXCEPT !.constructions[id].promise = "ok",
                       !.resources = (id :> NewResource) @@ @,
                       !.allEntries = With(@, idx, id),
                       !.anyEntries = @ \cup { id },
                       !.okEntries = @ \cup { id },
                       !.allValues = With(@, idx, id),
                       !.values = Append(@, id),
                       !.emitted = Append(@, CreatedEvent(id))]

FailedUnchecked(p, id) ==
  LET idx == p.constructions[id].index
  IN  [p EXCEPT !.constructions[id].promise = "err",
                !.resources = (id :> Thrown(id)) @@ @,
                !.allEntries = With(@, idx, id),
                !.anyEntries = @ \cup { id },
                !.errEntries = @ \cup { id },
                !.emitted = Append(@, CreatedEvent(id))]

\* #createOrThrow after the creator rejected
FailedIn(p, id) ==
  LET idx == p.constructions[id].index
  IN  IF p.constructions[id].aborted
        THEN [p EXCEPT !.constructions[id].promise = "rejected"]
        ELSE [p EXCEPT !.constructions[id].promise = "err",
                       !.resources = (id :> Thrown(id)) @@ @,
                       !.allEntries = With(@, idx, id),
                       !.anyEntries = @ \cup { id },
                       !.errEntries = @ \cup { id },
                       !.emitted = Append(@, CreatedEvent(id))]

TakenWithoutRestart(p, entry, by) == [p EXCEPT !.resources[entry].box = "moved"]

\* The body of the takes once an entry is picked: value.inner.moveOrThrow(),
\* then this.restart(index)
TakenIn(p, entry, by) ==
  RestartIn([p EXCEPT !.resources[entry].box = "moved"], p.constructions[entry].index, by)

\* Whether moveOrThrow of the picked entry's box succeeds
Movable(p, entry) == p.resources[entry].box = "owned"

\* The pool at the start of an operation
Quiet == [pool EXCEPT !.emitted = << >>]

Idle == [pc |-> "idle", snapshot |-> {}, taken |-> 0, error |-> "none", aborted |-> FALSE]

\* The mutex is free
Unlocked == mutex = {}

\* No iterator was asked of the pool
NoIteration == [pc |-> "idle", snapshot |-> {}, yielded |-> << >>]

InitTake ==
  /\ pool = NewPool
  /\ mutex = {}
  /\ takers = [t \in Takers |-> Idle]
  /\ iter = NoIteration

\* Slots are alike to the pool: callers use them in order of index
InOrder(idx) ==
  \A j \in Indexes : j < idx => \E id \in DOMAIN pool.constructions : pool.constructions[id].index = j

\* Callers are alike to the pool: they make their calls in order of id
InTurn(t) == \A u \in Takers : u < t => takers[u].pc # "idle"

\* pool.start(index), called on the pool
StartSlot(idx) ==
  /\ idx \notin DOMAIN pool.allPromises
  /\ InOrder(idx)
  /\ Len(pool.constructions) < MaxStarts
  /\ pool' = StartIn(Quiet, idx, 0)
  /\ UNCHANGED << mutex, takers >>
  /\ UNCHANGED << iter, itemVars, capVars, loopVars >>

\* The constructions whose signal is aborted
AbortedConstructions == { id \in DOMAIN pool.constructions : pool.constructions[id].aborted }

\* pool.stop(index), called on the pool
StopSlot(idx) ==
  /\ idx \in DOMAIN pool.allPromises
  /\ Cardinality(AbortedConstructions) < MaxStops
  /\ pool' = StopIn(Quiet, idx)
  /\ UNCHANGED << mutex, takers >>
  /\ UNCHANGED << iter, itemVars, capVars, loopVars >>

\* pool.start(index), called on any slot, started or not
StartAnySlot(idx) ==
  /\ InOrder(idx)
  /\ Len(pool.constructions) < MaxStarts
  /\ pool' = StartIn(Quiet, idx, 0)
  /\ UNCHANGED << mutex, takers >>
  /\ UNCHANGED << iter, itemVars, capVars, loopVars >>

\* pool.stop(index), called on any slot, started or not
StopAnySlot(idx) ==
  /\ Cardinality(AbortedConstructions) < MaxStops
  /\ pool' = StopIn(Quiet, idx)
  /\ UNCHANGED << mutex, takers >>
  /\ UNCHANGED << iter, itemVars, capVars, loopVars >>

\* pool.restart(index), called on the pool
RestartSlot(idx) ==
  /\ idx \in DOMAIN pool.allPromises
  /\ Cardinality(AbortedConstructions) < MaxStops
  /\ Len(pool.constructions) < MaxStarts
  /\ pool' = RestartIn(Quiet, idx, 0)
  /\ UNCHANGED << mutex, takers >>
  /\ UNCHANGED << iter, itemVars, capVars, loopVars >>

\* The creator's promise of a construction not settled yet
Unsettled == { id \in DOMAIN pool.constructions : id \notin DOMAIN pool.resources
                                                  /\ pool.constructions[id].promise = "pending" }

\* The creator resolves
CreatorResolves(id) ==
  /\ id \in Unsettled
  /\ pool' = CreatedIn(Quiet, id)
  /\ UNCHANGED << mutex, takers >>
  /\ UNCHANGED << iter, itemVars, capVars, loopVars >>

\* The creator rejects
CreatorRejects(id) ==
  /\ id \in Unsettled
  /\ pool' = FailedIn(Quiet, id)
  /\ UNCHANGED << mutex, takers >>
  /\ UNCHANGED << iter, itemVars, capVars, loopVars >>

\* takeRawRandomSyncOrThrow / takeRawCryptoRandomSyncOrThrow
TakeSync(t) ==
  /\ takers[t].pc = "idle"
  /\ InTurn(t)
  /\ IF pool.okEntries = {}
       THEN /\ takers' = [takers EXCEPT ![t].pc = "failed",
                                        ![t].error = "EmptyPoolError"]
            /\ pool' = Quiet
       ELSE \E entry \in pool.okEntries :
              IF Movable(pool, entry)
                THEN /\ pool' = TakenIn(Quiet, entry, t)
                     /\ takers' = [takers EXCEPT ![t].pc = "done",
                                                 ![t].taken = entry]
                ELSE /\ pool' = Quiet
                     /\ takers' = [takers EXCEPT ![t].pc = "failed",
                                                 ![t].error = "BoxMovedError"]
  /\ UNCHANGED mutex
  /\ UNCHANGED << iter, itemVars, capVars, loopVars >>

\* takeRawRandomOrThrow / takeRawCryptoRandomOrThrow is called: the callback
\* is handed to this.#mutex.lockOrWait
TakeCall(t) ==
  /\ takers[t].pc = "idle"
  /\ InTurn(t)
  /\ takers' = [takers EXCEPT ![t].pc = "queued"]
  /\ UNCHANGED << pool, mutex >>
  /\ UNCHANGED << iter, itemVars, capVars, loopVars >>

\* The mutex runs the callback: getRawRandomOrThrow takes Promise.any of the
\* ok promises of that moment and awaits it, raced with
\* Signals.rejectOnAbort(signal); a signal aborted by then rejects the race,
\* the callback throws and the mutex is released
TakeAcquire(t) ==
  /\ takers[t].pc = "queued"
  /\ Unlocked
  /\ IF takers[t].aborted
       THEN /\ takers' = [takers EXCEPT ![t].pc = "failed", ![t].error = "AbortError"]
            /\ UNCHANGED mutex
       ELSE /\ mutex' = mutex \cup { t }
            /\ takers' = [takers EXCEPT ![t].pc = "waiting",
                                        ![t].snapshot = pool.okPromises]
  /\ UNCHANGED pool
  /\ UNCHANGED << iter, itemVars, capVars, loopVars >>

\* Promise.any resolved: getRawRandomSyncOrThrow is tried; on EmptyPoolError the
\* loop takes Promise.any again, otherwise the entry is moved out, its slot
\* restarted, and the mutex released
TakeWake(t) ==
  /\ takers[t].pc = "waiting"
  /\ \E id \in takers[t].snapshot : pool.constructions[id].promise = "ok"
  /\ IF pool.okEntries = {}
       THEN /\ takers' = [takers EXCEPT ![t].snapshot = pool.okPromises]
            /\ UNCHANGED << pool, mutex >>
       ELSE \E entry \in pool.okEntries :
              /\ mutex' = mutex \ { t }
              /\ IF Movable(pool, entry)
                   THEN /\ pool' = TakenIn(Quiet, entry, t)
                        /\ takers' = [takers EXCEPT ![t].pc = "done", ![t].snapshot = {},
                                                    ![t].taken = entry]
                   ELSE /\ pool' = Quiet
                        /\ takers' = [takers EXCEPT ![t].pc = "failed", ![t].snapshot = {},
                                                    ![t].error = "BoxMovedError"]
  /\ UNCHANGED << iter, itemVars, capVars, loopVars >>

\* Promise.any rejected: every promise it was given rejected (or it was given
\* none); the AggregateError leaves getRawRandomOrThrow and the callback
TakeReject(t) ==
  /\ takers[t].pc = "waiting"
  /\ \A id \in takers[t].snapshot : pool.constructions[id].promise \in { "err", "rejected" }
  /\ mutex' = mutex \ { t }
  /\ takers' = [takers EXCEPT ![t].pc = "failed", ![t].snapshot = {},
                                   ![t].error = "AggregateError"]
  /\ UNCHANGED pool
  /\ UNCHANGED << iter, itemVars, capVars, loopVars >>

\* The caller aborts the signal it passed to takeRawRandomOrThrow. A call
\* inside getRawRandomOrThrow, whose Promise.any is still pending, is rejected
\* by rejectOnAbort and releases the mutex; a call whose callback is still
\* queued on the mutex has nothing listening to its signal
TakeAbort(t) ==
  /\ takers[t].pc \in { "queued", "waiting" }
  /\ ~takers[t].aborted
  /\ IF takers[t].pc = "waiting"
       THEN /\ \A id \in takers[t].snapshot : pool.constructions[id].promise # "ok"
            /\ mutex' = mutex \ { t }
            /\ takers' = [takers EXCEPT ![t].pc = "failed", ![t].snapshot = {},
                                        ![t].error = "AbortError",
                                        ![t].aborted = TRUE]
       ELSE /\ takers' = [takers EXCEPT ![t].aborted = TRUE]
            /\ UNCHANGED mutex
  /\ UNCHANGED pool
  /\ UNCHANGED << iter, itemVars, capVars, loopVars >>

\* getRawRandomOrThrow(signal) / getRawCryptoRandomOrThrow(signal) is called:
\* it takes Promise.any of the ok promises of that moment and awaits it,
\* raced with Signals.rejectOnAbort(signal)
RandomGetCall(t) ==
  /\ takers[t].pc = "idle"
  /\ InTurn(t)
  /\ takers' = [takers EXCEPT ![t].pc = "getting", ![t].snapshot = pool.okPromises]
  /\ UNCHANGED << pool, mutex >>
  /\ UNCHANGED << iter, itemVars, capVars, loopVars >>

\* Promise.any resolved: getRawRandomSyncOrThrow is tried; its EmptyPoolError
\* is caught and the loop takes Promise.any again, otherwise the entry picked
\* among #okEntries is returned
RandomGetWake(t) ==
  /\ takers[t].pc = "getting"
  /\ \E id \in takers[t].snapshot : pool.constructions[id].promise = "ok"
  /\ IF pool.okEntries = {}
       THEN takers' = [takers EXCEPT ![t].snapshot = pool.okPromises]
       ELSE \E entry \in pool.okEntries :
              takers' = [takers EXCEPT ![t].pc = "done", ![t].snapshot = {},
                                       ![t].taken = entry]
  /\ UNCHANGED << pool, mutex >>
  /\ UNCHANGED << iter, itemVars, capVars, loopVars >>

\* Promise.any rejected: every promise it was given rejected (or it was given
\* none); the await is outside the try, so the AggregateError leaves
\* getRawRandomOrThrow. The record keeps the promises that were awaited
RandomGetReject(t) ==
  /\ takers[t].pc = "getting"
  /\ \A id \in takers[t].snapshot : pool.constructions[id].promise \in { "err", "rejected" }
  /\ takers' = [takers EXCEPT ![t].pc = "failed", ![t].error = "AggregateError"]
  /\ UNCHANGED << pool, mutex >>
  /\ UNCHANGED << iter, itemVars, capVars, loopVars >>

\* The caller aborts the signal it passed to getRawRandomOrThrow while
\* Promise.any is pending: rejectOnAbort rejects the race
RandomGetAbort(t) ==
  /\ takers[t].pc = "getting"
  /\ \A id \in takers[t].snapshot : pool.constructions[id].promise # "ok"
  /\ takers' = [takers EXCEPT ![t].pc = "failed", ![t].snapshot = {},
                                   ![t].error = "AbortError", ![t].aborted = TRUE]
  /\ UNCHANGED << pool, mutex >>
  /\ UNCHANGED << iter, itemVars, capVars, loopVars >>

\* The caller disposes the entry a take returned: its Disposer (value2) runs
\* () => value.dispose(), the entry cleanup the creator supplied
TakenDispose(t) ==
  /\ takers[t].pc = "done"
  /\ pool' = [Quiet EXCEPT !.resources[takers[t].taken].cleaned = @ + 1]
  /\ takers' = [takers EXCEPT ![t].pc = "disposed"]
  /\ UNCHANGED mutex
  /\ UNCHANGED << iter, itemVars, capVars, loopVars >>

\* getOrThrow(index, signal) is called: getRawOrThrow throws EmptySlotError
\* when the slot holds no promise, and otherwise awaits the entry promise the
\* slot holds at that moment, raced with Signals.rejectOnAbort(signal)
GetRawCall(t, idx) ==
  /\ takers[t].pc = "idle"
  /\ InTurn(t)
  /\ takers' = IF idx \in DOMAIN pool.allPromises
                 THEN [takers EXCEPT ![t].pc = "awaiting",
                                     ![t].snapshot = { pool.allPromises[idx] }]
                 ELSE [takers EXCEPT ![t].pc = "failed", ![t].error = "EmptySlotError"]
  /\ UNCHANGED << pool, mutex >>
  /\ UNCHANGED << iter, itemVars, capVars, loopVars >>

\* The error getOrThrow ends with when the awaited entry promise settled
\* otherwise than with an Ok entry: the stored error of an Err entry
\* (r.getOrThrow()), or the abort reason of the construction's own signal,
\* with which #createOrThrow rejected
SettledError(promise) == IF promise = "err" THEN "Error" ELSE "AbortError (construction)"

\* The awaited entry promise settled
GetRawSettle(t) ==
  /\ takers[t].pc = "awaiting"
  /\ \E id \in takers[t].snapshot :
       /\ pool.constructions[id].promise # "pending"
       /\ takers' = IF pool.constructions[id].promise = "ok"
                      THEN [takers EXCEPT ![t].pc = "done", ![t].taken = id]
                      ELSE [takers EXCEPT ![t].pc = "failed",
                                          ![t].error = SettledError(pool.constructions[id].promise)]
  /\ UNCHANGED << pool, mutex >>
  /\ UNCHANGED << iter, itemVars, capVars, loopVars >>

\* The caller aborts the signal it passed to getOrThrow while the entry
\* promise is pending
GetRawAbort(t) ==
  /\ takers[t].pc = "awaiting"
  /\ \A id \in takers[t].snapshot : pool.constructions[id].promise = "pending"
  /\ takers' = [takers EXCEPT ![t].pc = "failed", ![t].error = "AbortError",
                                   ![t].aborted = TRUE]
  /\ UNCHANGED << pool, mutex >>
  /\ UNCHANGED << iter, itemVars, capVars, loopVars >>

\* The pool's own steps: its callers' start, stop and restart and the creators
\* The values of the pool that the iterator has not visited, in insertion
\* order: a Set iterator walks the live Set, so it skips what was deleted
\* before its visit and reaches what was added before its end
Unvisited == SelectSeq(pool.values, LAMBDA v : v \notin Elements(iter.yielded))

\* pool[Symbol.iterator]()
IterOpen ==
  /\ iter.pc = "idle"
  /\ iter' = [pc |-> "open", snapshot |-> Elements(pool.values), yielded |-> << >>]
  /\ UNCHANGED << pool, mutex, takers, itemVars, capVars, loopVars >>

\* next() on the iterator
IterNext ==
  /\ iter.pc = "open"
  /\ iter' = IF Unvisited = << >>
               THEN [iter EXCEPT !.pc = "done"]
               ELSE [iter EXCEPT !.yielded = Append(@, Head(Unvisited))]
  /\ UNCHANGED << pool, mutex, takers, itemVars, capVars, loopVars >>

NextPool ==
  \/ \E idx \in Indexes : StartSlot(idx)
  \/ \E idx \in Indexes : StopSlot(idx)
  \/ \E idx \in Indexes : RestartSlot(idx)
  \/ \E id \in Unsettled : CreatorResolves(id)
  \/ \E id \in Unsettled : CreatorRejects(id)

\* An iteration on the pool while slots start, settle and stop
NextIter ==
  \/ NextPool
  \/ IterOpen
  \/ IterNext

\* Callers of takeRawRandomOrThrow / takeRawCryptoRandomOrThrow
NextTake ==
  \/ NextPool
  \/ \E t \in Takers : TakeCall(t)
  \/ \E t \in Takers : TakeAcquire(t)
  \/ \E t \in Takers : TakeWake(t)
  \/ \E t \in Takers : TakeReject(t)

\* Callers of takeRawRandomSyncOrThrow / takeRawCryptoRandomSyncOrThrow
NextTakeSync ==
  \/ NextPool
  \/ \E t \in Takers : TakeSync(t)

\* Slots are only started and every creator succeeds
NextTakeLive ==
  \/ \E idx \in Indexes : StartSlot(idx)
  \/ \E id \in Unsettled : CreatorResolves(id)
  \/ \E t \in Takers : TakeCall(t)
  \/ \E t \in Takers : TakeAcquire(t)
  \/ \E t \in Takers : TakeWake(t)
  \/ \E t \in Takers : TakeReject(t)

\* Callers of takeRawRandomOrThrow(signal) that may abort their signal, on a
\* pool whose slots are only started
NextTakeAbort ==
  \/ \E idx \in Indexes : StartSlot(idx)
  \/ \E id \in Unsettled : CreatorResolves(id)
  \/ \E t \in Takers : TakeCall(t)
  \/ \E t \in Takers : TakeAcquire(t)
  \/ \E t \in Takers : TakeWake(t)
  \/ \E t \in Takers : TakeReject(t)
  \/ \E t \in Takers : TakeAbort(t)

\* Slots start, restart and settle, entries are taken, and stop is called on
\* any index
NextStop ==
  \/ \E idx \in Indexes : StartSlot(idx)
  \/ \E idx \in Indexes : StopAnySlot(idx)
  \/ \E idx \in Indexes : RestartSlot(idx)
  \/ \E id \in Unsettled : CreatorResolves(id)
  \/ \E id \in Unsettled : CreatorRejects(id)
  \/ \E t \in Takers : TakeSync(t)

\* Slots stop, restart and settle, entries are taken, and start is called on
\* any index
NextStart ==
  \/ \E idx \in Indexes : StartAnySlot(idx)
  \/ \E idx \in Indexes : StopSlot(idx)
  \/ \E idx \in Indexes : RestartSlot(idx)
  \/ \E id \in Unsettled : CreatorResolves(id)
  \/ \E id \in Unsettled : CreatorRejects(id)
  \/ \E t \in Takers : TakeSync(t)

\* Callers of getRawRandomOrThrow(signal) while slots start, stop, restart
\* and settle
NextRandomGet ==
  \/ NextPool
  \/ \E t \in Takers : RandomGetCall(t)
  \/ \E t \in Takers : RandomGetWake(t)
  \/ \E t \in Takers : RandomGetReject(t)
  \/ \E t \in Takers : RandomGetAbort(t)

\* Callers of the takes, synchronous or under the mutex, who dispose the entry
\* they were returned
NextTakeDispose ==
  \/ \E idx \in Indexes : StartSlot(idx)
  \/ \E id \in Unsettled : CreatorResolves(id)
  \/ \E id \in Unsettled : CreatorRejects(id)
  \/ \E t \in Takers : TakeSync(t)
  \/ \E t \in Takers : TakeCall(t)
  \/ \E t \in Takers : TakeAcquire(t)
  \/ \E t \in Takers : TakeWake(t)
  \/ \E t \in Takers : TakeReject(t)
  \/ \E t \in Takers : TakenDispose(t)

\* Callers of getOrThrow(index, signal) while slots start, restart and settle
NextGetRaw ==
  \/ \E idx \in Indexes : StartSlot(idx)
  \/ \E idx \in Indexes : RestartSlot(idx)
  \/ \E id \in Unsettled : CreatorResolves(id)
  \/ \E id \in Unsettled : CreatorRejects(id)
  \/ \E t \in Takers, idx \in Indexes : GetRawCall(t, idx)
  \/ \E t \in Takers : GetRawSettle(t)
  \/ \E t \in Takers : GetRawAbort(t)

\* The event loop runs every continuation of getRawOrThrow that is ready
FairGetRaw == \A t \in Takers : WF_vars(GetRawSettle(t))

\* The event loop runs every continuation of getRawRandomOrThrow that is ready
FairRandomGet ==
  /\ \A t \in Takers : WF_vars(RandomGetWake(t))
  /\ \A t \in Takers : WF_vars(RandomGetReject(t))

\* The event loop runs every continuation that is ready; a creator may take
\* any time to settle
FairTakeAbort ==
  /\ \A t \in Takers : WF_vars(TakeAcquire(t))
  /\ \A t \in Takers : WF_vars(TakeWake(t))
  /\ \A t \in Takers : WF_vars(TakeReject(t))

\* The event loop runs every continuation that is ready, and every creator
\* call settles
FairTake ==
  /\ \A id \in 1..(MaxStarts + MaxTakers) : WF_vars(CreatorResolves(id))
  /\ \A t \in Takers : WF_vars(TakeAcquire(t))
  /\ \A t \in Takers : WF_vars(TakeWake(t))
  /\ \A t \in Takers : WF_vars(TakeReject(t))

\* ------------------------------------------------ claims on the start/stop pool
\* The slot holds a promise and no entry
Pending(p, idx) == idx \in DOMAIN p.allPromises /\ idx \notin DOMAIN p.allEntries

\* The slot holds an Ok entry
Ready(p, idx) == idx \in DOMAIN p.allEntries /\ p.allEntries[idx] \in p.okEntries

\* The slot of a construction
IndexOf(id) == pool.constructions[id].index

\* The takers whose take returned an entry
Done == { t \in Takers : takers[t].pc = "done" }

\* What the getters, the entry promises of the slots and iteration give
Gettable(p) ==
  p.anyEntries \cup p.okEntries \cup Elements(p.values)
    \cup { p.allEntries[idx] : idx \in DOMAIN p.allEntries }
    \cup { p.allValues[idx] : idx \in DOMAIN p.allValues }
    \cup { id \in { p.allPromises[idx] : idx \in DOMAIN p.allPromises } :
             p.constructions[id].promise \in { "ok", "err" } }

\* C5: two concurrent takeRandomOrThrow / takeCryptoRandomOrThrow calls never
\* receive the same item: at most one call at a time runs its wait-pick-move-
\* restart under the mutex, the calls that returned hold pairwise different
\* items, an item handed out is no longer an Ok entry of the pool, and no call
\* fails because moveOrThrow met a box that was already moved.
C5_ConcurrentTakesDistinct ==
  /\ Cardinality(mutex) <= 1
  /\ \A t \in Takers : takers[t].pc = "waiting" <=> t \in mutex
  /\ \A t, u \in Done : t # u => takers[t].taken # takers[u].taken
  /\ \A t \in Done : takers[t].taken \notin pool.okEntries
  /\ \A t \in Takers : takers[t].error # "BoxMovedError"
  /\ \A entry \in pool.okEntries : Movable(pool, entry)

\* Two calls were queued on the mutex together and both returned; the second
\* one's item is the construction the first one's restart started
C5_Witness ==
  /\ Done = Takers
  /\ \E t, u \in Takers :
       /\ t # u
       /\ takers[t].taken # takers[u].taken
       /\ pool.constructions[takers[u].taken].by = t
       /\ pool.resources[takers[t].taken].box = "moved"
       /\ pool.resources[takers[u].taken].box = "moved"
  /\ mutex = {}

\* A taker's call is pending on a pool with a started slot
Called(t) == takers[t].pc = "queued" /\ DOMAIN pool.allPromises # {}

\* Only slot 0 was ever started
SingleSlot == \A id \in DOMAIN pool.constructions : IndexOf(id) = 0

\* With a single slot, a later take is served by the construction that the
\* restart of the take before it started
ServedByRestart ==
  SingleSlot =>
    \A u \in Done :
      \/ pool.constructions[takers[u].taken].by = 0
         /\ \A t \in Done : takers[t].taken >= takers[u].taken
      \/ \E t \in Done : /\ pool.constructions[takers[u].taken].by = t
                         /\ takers[t].taken < takers[u].taken

\* C6: on a pool with a started slot whose creators always succeed, every
\* concurrent takeCryptoRandomOrThrow call eventually resolves (it never stays
\* pending and never rejects), and with a single slot the second call is served
\* by the construction that the first take's restart started.
C6_ConcurrentTakesResolve ==
  /\ \A t \in Takers : Called(t) ~> (takers[t].pc = "done")
  /\ []ServedByRestart

\* Single slot: both calls resolved, the second with the construction of the
\* first one's restart, and the second one's restart is in flight
C6_Witness ==
  /\ SingleSlot
  /\ Done = Takers
  /\ \E t, u \in Takers :
       /\ takers[t].taken = 1
       /\ pool.constructions[takers[u].taken].by = t
       /\ Pending(pool, 0)
       /\ pool.constructions[pool.allPromises[0]].by = u

\* C7: takeRawRandomSyncOrThrow on a pool with an Ok entry returns an entry that
\* was Ok in its slot; when it returns, that slot is Pending with a construction
\* that did not exist before, the value is no longer in values, size is one
\* less, no get and no iteration can return it, and the other slots are as they
\* were.  A second call right after a first (the first one's slot still
\* Pending) returns another value and leaves both slots Pending.
C7_TakeSyncLeavesPending ==
  [][\A t \in Takers :
       TakeSync(t) /\ pool.okEntries # {} =>
         LET entry == takers'[t].taken
             idx == IndexOf(entry)
         IN  /\ takers'[t].pc = "done"
             /\ entry \in pool.okEntries
             /\ Ready(pool, idx) /\ pool.allEntries[idx] = entry
             /\ Pending(pool', idx)
             /\ pool'.allPromises[idx] \notin DOMAIN pool.constructions
             /\ pool'.constructions[pool'.allPromises[idx]].promise = "pending"
             /\ ~pool'.constructions[pool'.allPromises[idx]].aborted
             /\ entry \notin Gettable(pool')
             /\ Size(pool') = Size(pool) - 1
             /\ \A j \in Indexes \ { idx } :
                  /\ (j \in DOMAIN pool.allPromises) = (j \in DOMAIN pool'.allPromises)
                  /\ (j \in DOMAIN pool.allEntries) = (j \in DOMAIN pool'.allEntries)
                  /\ j \in DOMAIN pool.allPromises => pool'.allPromises[j] = pool.allPromises[j]
                  /\ j \in DOMAIN pool.allEntries => pool'.allEntries[j] = pool.allEntries[j]
             /\ \A u \in Done :
                  Pending(pool, IndexOf(takers[u].taken)) =>
                    /\ entry # takers[u].taken
                    /\ idx # IndexOf(takers[u].taken)
                    /\ Pending(pool', IndexOf(takers[u].taken))
                    /\ Pending(pool', idx)]_vars

\* Two takes in sequence on two Ready slots: two values, both slots Pending,
\* nothing left to get
C7_Witness ==
  /\ Done = Takers
  /\ \E t, u \in Takers :
       /\ takers[t].taken = 1 /\ takers[u].taken = 2
       /\ Pending(pool, IndexOf(1)) /\ Pending(pool, IndexOf(2))
       /\ IndexOf(1) # IndexOf(2)
  /\ Gettable(pool) = {}
  /\ Size(pool) = 0
  /\ Len(pool.constructions) = 4

\* ================================================== capacity-managed pool
Capacities == 0..MaxCapacity

\* No growOrShrink call has returned
NotReturned == -1

\* One call of #createOrThrow: its index, its AbortController's signal, and the
\* entry it made ("none" while the creator is pending, then "ok" or "err").
\* given counts the disposals of the Disposer the creator returned.
CapConstruction(idx) == [index |-> idx, aborted |-> FALSE, entry |-> "none", given |-> 0]

\* Pool.#start(index), with the synchronous head of #createOrThrow
CapStartIn(p, idx) ==
  LET id == Len(p.constructions) + 1
  IN  [p EXCEPT !.constructions = Append(@, CapConstruction(idx)),
                !.allAborters = With(@, idx, id),
                !.allPromises = With(@, idx, id),
                !.allOkPromises = With(@, idx, id),
                !.okPromises = @ \cup { id },
                !.emitted = Append(@, StartedEvent(idx))]

RECURSIVE CapStartAll(_, _, _)
\* for (let i = from; i < to; i++) this.#start(i)
CapStartAll(p, from, to) ==
  IF from >= to THEN p ELSE CapStartAll(CapStartIn(p, from), from + 1, to)

\* new Pool(creator, { capacity })
CapNewPool(capacity) ==
  CapStartAll([ capacity |-> capacity,
                allEntries |-> Empty,
                allPromises |-> Empty,
                allAborters |-> Empty,
                okEntries |-> {},
                errEntries |-> {},
                allOkPromises |-> Empty,
                okPromises |-> {},
                constructions |-> << >>,
                emitted |-> << >>,
                returned |-> NotReturned,
                grown |-> FALSE ], 0, capacity)

\* get size
CapSize(p) == Cardinality(p.okEntries)

\* get stagnant
Stagnant(p) == Cardinality(p.errEntries) = p.capacity

\* #createOrThrow after the creator resolved: an Ok entry, or, when
\* signal.throwIfAborted() throws, the catch block's Err entry
CapCreatedIn(p, id) ==
  LET idx == p.constructions[id].index
  IN  IF p.constructions[id].aborted
        THEN [p EXCEPT !.constructions[id].entry = "err",
                       !.constructions[id].given = @ + 1,
                       !.allEntries = With(@, idx, id),
                       !.errEntries = @ \cup { id },
                       !.emitted = Append(@, CreatedEvent(id))]
        ELSE [p EXCEPT !.constructions[id].entry = "ok",
                       !.allEntries = With(@, idx, id),
                       !.okEntries = @ \cup { id },
                       !.emitted = Append(@, CreatedEvent(id))]

\* #createOrThrow after the creator rejected: the catch block's Err entry
CapFailedIn(p, id) ==
  LET idx == p.constructions[id].index
  IN  [p EXCEPT !.constructions[id].entry = "err",
                !.allEntries = With(@, idx, id),
                !.errEntries = @ \cup { id },
                !.emitted = Append(@, CreatedEvent(id))]

\* Pool.#delete(index)
CapDeleteIn(p, idx) ==
  LET q == [p EXCEPT !.constructions =
                       IF idx \in DOMAIN p.allAborters
                         THEN [@ EXCEPT ![p.allAborters[idx]].aborted = TRUE]
                         ELSE @,
                     !.allAborters = Without(@, idx),
                     !.okPromises =
                       IF idx \in DOMAIN p.allOkPromises
                         THEN @ \ { p.allOkPromises[idx] }
                         ELSE @,
                     !.allOkPromises = Without(@, idx),
                     !.allPromises = Without(@, idx)]
  IN  IF idx \notin DOMAIN q.allEntries
        THEN q
        ELSE LET entry == q.allEntries[idx]
             IN  [q EXCEPT !.constructions =
                             IF q.constructions[entry].entry = "ok"
                               THEN [@ EXCEPT ![entry].given = @ + 1]
                               ELSE @,
                           !.okEntries =
                             IF q.constructions[entry].entry = "ok" THEN @ \ { entry } ELSE @,
                           !.errEntries =
                             IF q.constructions[entry].entry = "err" THEN @ \ { entry } ELSE @,
                           !.allEntries = Without(@, idx),
                           !.emitted = Append(@, DeletedEvent(entry))]

RECURSIVE CapDeleteAll(_, _, _)
\* for (let i = from; i < to; i++) this.#delete(i)
CapDeleteAll(p, from, to) ==
  IF from >= to THEN p ELSE CapDeleteAll(CapDeleteIn(p, from), from + 1, to)

\* Pool.restart(index)
CapRestartIn(p, idx) == CapStartIn(CapDeleteIn(p, idx), idx)

GrowOrShrinkKeepsCapacity(p, capacity) ==
  IF capacity > p.capacity
    THEN CapStartAll([p EXCEPT !.returned = p.capacity,
                               !.grown = TRUE], p.capacity, capacity)
    ELSE IF capacity < p.capacity
           THEN CapDeleteAll([p EXCEPT !.returned = p.capacity], capacity, p.capacity)
           ELSE [p EXCEPT !.returned = p.capacity]

\* Pool.growOrShrink(capacity)
GrowOrShrinkIn(p, capacity) ==
  IF capacity > p.capacity
    THEN CapStartAll([p EXCEPT !.returned = p.capacity,
                               !.capacity = capacity,
                               !.grown = TRUE], p.capacity, capacity)
    ELSE IF capacity < p.capacity
           THEN CapDeleteAll([p EXCEPT !.returned = p.capacity,
                                       !.capacity = capacity], capacity, p.capacity)
           ELSE [p EXCEPT !.returned = p.capacity]

\* The pool at the start of an operation
CapQuiet == [cap EXCEPT !.emitted = << >>, !.returned = NotReturned]

InitCap == cap \in { CapNewPool(capacity) : capacity \in Capacities }

\* No capacity-managed pool is in use
IdleCap == cap = CapNewPool(0)

\* The constructions whose creator has not settled
CapUnsettled == { id \in DOMAIN cap.constructions : cap.constructions[id].entry = "none" }

\* pool.restart(index) on a slot of the pool
CapRestart(idx) ==
  /\ idx < cap.capacity
  /\ Len(cap.constructions) < MaxBuilds
  /\ cap' = CapRestartIn(CapQuiet, idx)
  /\ UNCHANGED << itemVars, takeVars, loopVars >>

\* pool.growOrShrink(capacity)
GrowOrShrink(capacity) ==
  /\ Len(cap.constructions) + (capacity - cap.capacity) <= MaxBuilds
  /\ cap' = GrowOrShrinkIn(CapQuiet, capacity)
  /\ UNCHANGED << itemVars, takeVars, loopVars >>

\* The creator resolves
CapResolves(id) ==
  /\ id \in CapUnsettled
  /\ cap' = CapCreatedIn(CapQuiet, id)
  /\ UNCHANGED << itemVars, takeVars, loopVars >>

\* The creator rejects
CapRejects(id) ==
  /\ id \in CapUnsettled
  /\ cap' = CapFailedIn(CapQuiet, id)
  /\ UNCHANGED << itemVars, takeVars, loopVars >>

\* restart, while the capacity has not been grown
CapRestartEarly(idx) == ~cap.grown /\ CapRestart(idx)

\* growOrShrink, while the capacity has not been grown
GrowOrShrinkEarly(capacity) == ~cap.grown /\ GrowOrShrink(capacity)

NextCap ==
  \/ \E idx \in 0..(MaxCapacity - 1) : CapRestart(idx)
  \/ \E capacity \in Capacities : GrowOrShrink(capacity)
  \/ \E id \in CapUnsettled : CapResolves(id)
  \/ \E id \in CapUnsettled : CapRejects(id)

\* Every creator succeeds; nothing is restarted or resized once the capacity
\* has been grown
NextCapLive ==
  \/ \E idx \in 0..(MaxCapacity - 1) : CapRestartEarly(idx)
  \/ \E capacity \in Capacities : GrowOrShrinkEarly(capacity)
  \/ \E id \in CapUnsettled : CapResolves(id)

\* Every creator call settles
FairCap == \A id \in 1..MaxBuilds : WF_vars(CapResolves(id))

\* =================================================================== loops
LoopKinds == { "loopOrThrow", "tryLoop", "tryLoopSignal" }

InnerErrors == { [name |-> "Error", id |-> n] : n \in 1..MaxErrors }

\* A looper's answers.  loopOrThrow's looper returns a value or throws; what it
\* throws is a Skip, a Retry, a Cancel instance or any other error.  tryLoop's
\* looper returns Ok or Err of a Skip, a Retry or a Cancel.
Outcomes(kind) ==
  { [kind |-> "Ok", inner |-> [name |-> "Value", id |-> 1]] }
    \cup { [kind |-> k, inner |-> e] : k \in { "Retry", "Skip", "Cancel" }, e \in InnerErrors }
    \cup (IF kind = "loopOrThrow"
            THEN { [kind |-> "Other", inner |-> e] : e \in InnerErrors }
            ELSE {})

RECURSIVE Pow(_, _)
Pow(b, n) == IF n = 0 THEN 1 ELSE b * Pow(b, n - 1)

DelayLinear(d, b, n) == d * b * n

\* init * (base ** i)
Delay(d, b, n) == d * Pow(b, n)

TooManyRetriesError(cause) == [name |-> "TooManyRetriesError", cause |-> cause]

AbortedError == [name |-> "AbortedError"]

CallEvent(n) == [op |-> "call", arg |-> n]

SleepEvent(ms) == [op |-> "sleep", arg |-> ms]

LoopConditionOffByOne == (loopKind = "tryLoopSignal" => ~signal) /\ i <= max

\* for (let i = 0; !signal?.aborted && i < max; i++)
LoopCondition == (loopKind = "tryLoopSignal" => ~signal) /\ i < max

ExhaustedIgnoresSignal ==
  CASE loopKind = "loopOrThrow" -> [kind |-> "Throw", value |-> TooManyRetriesError(errors)]
    [] OTHER -> [kind |-> "Err", value |-> TooManyRetriesError(errors)]

\* What the loop ends with when its condition fails.
Exhausted ==
  CASE loopKind = "loopOrThrow" -> [kind |-> "Throw", value |-> TooManyRetriesError(errors)]
    [] loopKind = "tryLoopSignal" /\ signal -> [kind |-> "Err", value |-> AbortedError]
    [] OTHER -> [kind |-> "Err", value |-> TooManyRetriesError(errors)]

SettledWrapped(o) ==
  CASE loopKind = "loopOrThrow" /\ o.kind = "Ok" -> [kind |-> "Return", value |-> o.inner]
    [] loopKind = "loopOrThrow" -> [kind |-> "Throw", value |-> o]
    [] o.kind = "Ok" -> [kind |-> "Ok", value |-> o.inner]
    [] OTHER -> [kind |-> "Err", value |-> o]

\* What the loop ends with on a looper answer that is neither Skip nor Retry.
Settled(o) ==
  CASE loopKind = "loopOrThrow" /\ o.kind = "Ok" -> [kind |-> "Return", value |-> o.inner]
    [] loopKind = "loopOrThrow" /\ o.kind = "Other" -> [kind |-> "Throw", value |-> o.inner]
    [] loopKind = "loopOrThrow" -> [kind |-> "Throw", value |-> o]
    [] o.kind = "Ok" -> [kind |-> "Ok", value |-> o.inner]
    [] OTHER -> [kind |-> "Err", value |-> o.inner]

InitLoop ==
  /\ loopKind \in LoopKinds
  /\ init \in 1..MaxInit
  /\ base \in 1..MaxBase
  /\ max \in 1..MaxMax
  /\ i = 0
  /\ errors = << >>
  /\ signal = FALSE
  /\ loopPc = "head"
  /\ outcomes = << >>
  /\ trace = << >>
  /\ result = NoResult

\* The loop condition is evaluated: the looper is invoked, or the loop ends.
LoopHead ==
  /\ loopPc = "head"
  /\ IF LoopCondition
       THEN /\ loopPc' = "looper"
            /\ trace' = Append(trace, CallEvent(i))
            /\ result' = result
       ELSE /\ loopPc' = "done"
            /\ result' = Exhausted
            /\ trace' = trace
  /\ UNCHANGED << loopKind, init, base, max, i, errors, signal, outcomes >>
  /\ UNCHANGED << itemVars, takeVars, capVars >>

LooperSettleSkipFree(o) ==
  /\ loopPc = "looper"
  /\ outcomes' = Append(outcomes, o)
  /\ CASE o.kind = "Skip" ->
            /\ errors' = Append(errors, o)
            /\ loopPc' = "head"
            /\ UNCHANGED << i, trace, result >>
       [] o.kind = "Retry" ->
            /\ errors' = Append(errors, o)
            /\ trace' = Append(trace, SleepEvent(Delay(init, base, i)))
            /\ loopPc' = "sleep"
            /\ UNCHANGED << i, result >>
       [] OTHER ->
            /\ result' = Settled(o)
            /\ loopPc' = "done"
            /\ UNCHANGED << i, errors, trace >>
  /\ UNCHANGED << loopKind, init, base, max, signal >>
  /\ UNCHANGED << itemVars, takeVars, capVars >>

\* The looper's promise settles with o.
LooperSettle(o) ==
  /\ loopPc = "looper"
  /\ outcomes' = Append(outcomes, o)
  /\ CASE o.kind = "Skip" ->
            /\ errors' = Append(errors, o)
            /\ i' = i + 1
            /\ loopPc' = "head"
            /\ UNCHANGED << trace, result >>
       [] o.kind = "Retry" ->
            /\ errors' = Append(errors, o)
            /\ trace' = Append(trace, SleepEvent(Delay(init, base, i)))
            /\ loopPc' = "sleep"
            /\ UNCHANGED << i, result >>
       [] OTHER ->
            /\ result' = Settled(o)
            /\ loopPc' = "done"
            /\ UNCHANGED << i, errors, trace >>
  /\ UNCHANGED << loopKind, init, base, max, signal >>
  /\ UNCHANGED << itemVars, takeVars, capVars >>

\* The backoff timer fires.
SleepElapse ==
  /\ loopPc = "sleep"
  /\ i' = i + 1
  /\ loopPc' = "head"
  /\ UNCHANGED << loopKind, init, base, max, errors, signal, outcomes, trace, result >>
  /\ UNCHANGED << itemVars, takeVars, capVars >>

\* The caller aborts options.signal.
SignalAbort ==
  /\ loopKind = "tryLoopSignal"
  /\ loopPc # "done"
  /\ ~signal
  /\ signal' = TRUE
  /\ UNCHANGED << loopKind, init, base, max, i, errors, loopPc, outcomes, trace, result >>
  /\ UNCHANGED << itemVars, takeVars, capVars >>

NextLoop ==
  \/ LoopHead
  \/ \E o \in Outcomes(loopKind) : LooperSettle(o)
  \/ SleepElapse
  \/ SignalAbort

\* No loop is running
IdleLoop ==
  /\ loopKind = "tryLoop"
  /\ init = 1
  /\ base = 1
  /\ max = 1
  /\ i = 0
  /\ errors = << >>
  /\ signal = FALSE
  /\ loopPc = "done"
  /\ outcomes = << >>
  /\ trace = << >>
  /\ result = NoResult

\* ========================================================= specifications
\* After construction of the pools, no loop running
Init == InitItems /\ InitTake /\ IdleCap /\ IdleLoop

\* After construction of the pools, at the entry of a loop
InitLoops == InitItems /\ InitTake /\ IdleCap /\ InitLoop

\* After construction of a capacity-managed pool, no loop running
InitCaps == InitItems /\ InitTake /\ InitCap /\ IdleLoop

\* An AutoPool fresh from its constructor
InitAuto == InitAutoPool /\ InitTake /\ IdleCap /\ IdleLoop

\* The Item-based pool: a StartPool and its callers
Spec == Init /\ [][Next]_vars

\* The start/stop pool with callers of start, stop, restart and the mutex-guarded takes
SpecTake == Init /\ [][NextTake]_vars

\* The start/stop pool with callers of start, stop, restart and the synchronous takes
SpecTakeSync == Init /\ [][NextTakeSync]_vars

\* The start/stop pool with succeeding creators, under a fair event loop
SpecTakeLive == Init /\ [][NextTakeLive]_vars /\ FairTake

\* The start/stop pool with start called on any index
SpecStart == Init /\ [][NextStart]_vars

\* The start/stop pool with stop called on any index
SpecStop == Init /\ [][NextStop]_vars

\* The start/stop pool with takers that dispose what they took
SpecTakeDispose == Init /\ [][NextTakeDispose]_vars

\* The start/stop pool with callers of the blocking get by index
SpecGetRaw == Init /\ [][NextGetRaw]_vars /\ FairGetRaw

\* The start/stop pool with callers of the blocking random get
SpecRandomGet == Init /\ [][NextRandomGet]_vars /\ FairRandomGet

\* The start/stop pool with takers that abort their signal
SpecTakeAbort == Init /\ [][NextTakeAbort]_vars /\ FairTakeAbort

\* The Item pool and callers of its blocking operations
SpecWait == Init /\ [][NextWait]_vars

\* The Item pool and callers of borrowOrWaitOrThrow
SpecBorrow == Init /\ [][NextBorrow]_vars

\* Every waiter whose future was resolved runs
FairWait == \A w \in Waiters : WF_vars(WaitResume(w))

\* The Item pool and callers that get a PoolItem, then borrow it
SpecGetBorrow == Init /\ [][NextGetBorrow]_vars

\* Every waiter whose future was resolved runs, every borrow is returned
FairBorrow == \A w \in Waiters : WF_vars(WaitResume(w)) /\ WF_vars(WaiterReturn(w))

\* The Item pool and callers of borrowOrWaitOrThrow, under a fair event loop
SpecBorrowLive == Init /\ [][NextBorrowLive]_vars /\ FairBorrow

\* Every creator call settles, and the event loop runs every continuation
\* that is ready
FairAuto ==
  /\ \A id \in 1..(NumIndexes + 1) : WF_vars(CreateResolve(id))
  /\ \A w \in Waiters : WF_vars(WaitResume(w)) /\ WF_vars(WaiterReturn(w))

\* An AutoPool whose creators succeed
SpecAuto == InitAuto /\ [][NextAuto]_vars /\ FairAuto

\* An AutoPool whose creators succeed and whose items are taken out
SpecAutoTake == InitAuto /\ [][NextAutoTake]_vars /\ FairAuto

\* The Item pool and callers of getOrWaitOrThrow, under a fair event loop
SpecWaitLive == Init /\ [][NextWait]_vars /\ FairWait

\* The Item pool and callers of its blocking operations aborting their signal
SpecWaitAbort == Init /\ [][NextWaitAbort]_vars

\* The Item pool and callers of all its non-blocking getters
SpecGet == Init /\ [][NextGet]_vars

\* The Item pool and holders disposing PoolItems
SpecDispose == Init /\ [][NextDispose]_vars

\* The start/stop pool and one iteration on it
SpecIter == Init /\ [][NextIter]_vars

\* The capacity-managed pool with callers of restart and growOrShrink
SpecCap == InitCaps /\ [][NextCap]_vars

\* The capacity-managed pool with succeeding creators, under a fair event loop
SpecCapLive == InitCaps /\ [][NextCapLive]_vars /\ FairCap

\* One run of a retry loop
SpecLoop == InitLoops /\ [][NextLoop]_vars

\* ================================================================== claims
Kinds(s) == [k \in DOMAIN s |-> s[k].kind]

Calls == SelectSeq(trace, LAMBDA ev : ev.op = "call")

Sleeps == SelectSeq(trace, LAMBDA ev : ev.op = "sleep")

\* C8: a looper that fails with Retry on attempts 0 and 1 and succeeds on
\* attempt 2 is invoked exactly three times, with indexes 0, 1, 2; the loop
\* sleeps exactly twice, init after attempt 0 and init * base after attempt 1,
\* each between a failed attempt and the next one; the result is the success
\* value.
C8_RetryTwiceThenSucceed ==
  (loopPc = "done" /\ Kinds(outcomes) = << "Retry", "Retry", "Ok" >>)
    => /\ trace = << CallEvent(0), SleepEvent(init), CallEvent(1),
                     SleepEvent(init * base), CallEvent(2) >>
       /\ result.kind \in { "Return", "Ok" }
       /\ result.value = outcomes[3].inner

C8_Witness ==
  /\ loopPc = "done"
  /\ Kinds(outcomes) = << "Retry", "Retry", "Ok" >>
  /\ init = 2
  /\ base = 2

\* C9: when every attempt fails with Retry or Skip (and the signal, if any, is
\* never aborted), the looper is invoked exactly max times, with indexes
\* 0..max-1, and the loop ends with TooManyRetriesError whose cause is the list
\* of the max attempt errors in attempt order.
C9_AllFailTooManyRetries ==
  (/\ loopPc = "done"
   /\ ~signal
   /\ \A k \in DOMAIN outcomes : outcomes[k].kind \in { "Retry", "Skip" })
    => /\ Len(outcomes) = max
       /\ Calls = [k \in 1..max |-> CallEvent(k - 1)]
       /\ result.kind \in { "Throw", "Err" }
       /\ result.value = TooManyRetriesError(outcomes)

C9_Witness ==
  /\ loopPc = "done"
  /\ max = 3
  /\ Kinds(outcomes) = << "Retry", "Retry", "Retry" >>
  /\ outcomes[1].inner # outcomes[2].inner
  /\ result.value = TooManyRetriesError(outcomes)

\* C10: in tryLoop and in the signal-aware tryLoop, an answer classified Cancel
\* is the last one: the loop is done, its last step was that looper invocation
\* (no sleep, no further invocation), and its result is Err of the error inside
\* the Cancel.
C10_CancelEndsLoop ==
  \A k \in DOMAIN outcomes :
    (loopKind # "loopOrThrow" /\ outcomes[k].kind = "Cancel")
      => /\ k = Len(outcomes)
         /\ loopPc = "done"
         /\ Len(Calls) = k
         /\ trace[Len(trace)] = CallEvent(k - 1)
         /\ Len(Sleeps) = Cardinality({ j \in 1..(k - 1) : outcomes[j].kind = "Retry" })
         /\ result = [kind |-> "Err", value |-> outcomes[k].inner]

C10_Witness ==
  /\ loopKind = "tryLoopSignal"
  /\ Len(outcomes) = 3
  /\ outcomes[2].kind = "Retry"
  /\ outcomes[3].kind = "Cancel"

\* The attempts that failed with Retry
Retries == { k \in DOMAIN outcomes : outcomes[k].kind = "Retry" }

\* C11: a Skip failure is followed by the next attempt with no sleep and still
\* uses up one attempt: the loop sleeps once per Retry failure and never for a
\* Skip; after a Skip, until the next call, the last thing the loop did is that
\* looper call, and the counter is one past its index; a looper that answers Skip on every
\* attempt is invoked exactly max times with no sleep and the loop ends with
\* TooManyRetriesError.
C11_SkipNoSleepCountsAttempt ==
  /\ Len(Sleeps) = Cardinality(Retries)
  /\ (/\ outcomes # << >>
      /\ outcomes[Len(outcomes)].kind = "Skip"
      /\ Len(Calls) = Len(outcomes))
       => /\ trace[Len(trace)].op = "call"
          /\ i = trace[Len(trace)].arg + 1
          /\ i = Len(outcomes)
  /\ (/\ loopPc = "done"
      /\ ~signal
      /\ \A k \in DOMAIN outcomes : outcomes[k].kind = "Skip")
       => /\ Len(Calls) = max
          /\ trace = [k \in 1..max |-> CallEvent(k - 1)]
          /\ result.kind \in { "Throw", "Err" }
          /\ result.value = TooManyRetriesError(outcomes)

C11_Witness ==
  /\ loopPc = "done"
  /\ max = 3
  /\ Kinds(outcomes) = << "Skip", "Retry", "Skip" >>
  /\ Len(Sleeps) = 1
  /\ Len(Calls) = 3
  /\ result.value = TooManyRetriesError(outcomes)

\* C12: in the signal-aware tryLoop, when the signal is aborted at the point
\* where an attempt would start (before the first attempt too, and when the
\* attempts are used up as well), the looper is not invoked and the loop
\* returns Err(AbortedError).
C12_AbortedAtAttemptStart ==
  [][(LoopHead /\ loopKind = "tryLoopSignal" /\ signal)
       => /\ loopPc' = "done"
          /\ trace' = trace
          /\ outcomes' = outcomes
          /\ result' = [kind |-> "Err", value |-> AbortedError]]_vars

\* The signal is aborted and the attempts are used up; the result is Aborted
C12_Witness ==
  /\ loopKind = "tryLoopSignal"
  /\ loopPc = "done"
  /\ signal
  /\ i = max
  /\ Len(outcomes) = max
  /\ result = [kind |-> "Err", value |-> AbortedError]

\* C13: in the signal-aware tryLoop every backoff sleep is cancellable: once
\* the signal is aborted while the loop sleeps, what the loop does next is to
\* end with Err(AbortedError); it does not wait for the timer.
C13_SleepCancellable ==
  [][(loopKind = "tryLoopSignal" /\ loopPc = "sleep" /\ signal)
       => /\ ~SleepElapse
          /\ loopPc' = "done"
          /\ result' = [kind |-> "Err", value |-> AbortedError]]_vars

\* ------------------------------------------------------------------ C14
\* The slot holds an Err entry
CapFailed(idx) ==
  /\ idx \in DOMAIN cap.allEntries
  /\ cap.constructions[cap.allEntries[idx]].entry = "err"

\* The slot holds an Ok entry
CapReady(idx) ==
  /\ idx \in DOMAIN cap.allEntries
  /\ cap.constructions[cap.allEntries[idx]].entry = "ok"

\* C14: in every state reached by completions of constructions (those of
\* aborted ones included), restart(index) and growOrShrink(n), the size of the
\* pool, its number of Ok entries, is at most its capacity.
C14_SizeWithinCapacity == CapSize(cap) <= cap.capacity

\* ------------------------------------------------------------------ C15
\* C15: stagnant is true exactly when every slot 0..capacity-1 holds an Err
\* entry.
C15_StagnantIffAllFailed ==
  Stagnant(cap) <=> \A idx \in 0..(cap.capacity - 1) : CapFailed(idx)

\* ------------------------------------------------------------------ C16
\* C16: once growOrShrink has grown the capacity, with creators that all
\* succeed and no restart or resize afterwards, the pool eventually reaches
\* size = capacity and keeps it.
C16_GrownPoolConverges == [](cap.grown => <>[](CapSize(cap) = cap.capacity))

\* ------------------------------------------------------------------ C17
\* What the pool holds for a slot: its entry, promises and aborter
CapSlot(p, idx) ==
  [ entry |-> IF idx \in DOMAIN p.allEntries THEN p.allEntries[idx] ELSE 0,
    promise |-> IF idx \in DOMAIN p.allPromises THEN p.allPromises[idx] ELSE 0,
    okPromise |-> IF idx \in DOMAIN p.allOkPromises THEN p.allOkPromises[idx] ELSE 0,
    aborter |-> IF idx \in DOMAIN p.allAborters THEN p.allAborters[idx] ELSE 0 ]

\* The slot holds nothing
CapSlotEmpty(p, idx) ==
  CapSlot(p, idx) = [entry |-> 0, promise |-> 0, okPromise |-> 0, aborter |-> 0]

\* Everything of the pool but its capacity, the value returned and the events
CapContent(p) ==
  << p.allEntries, p.allPromises, p.allOkPromises, p.allAborters,
     p.okEntries, p.errEntries, p.okPromises, p.constructions >>

\* growOrShrink(n) with n above the capacity: one construction started for
\* each index of [old, n), in order, and nothing else touched
Grows(old, n) ==
  LET len == Len(cap.constructions)
  IN  /\ Len(cap'.constructions) = len + (n - old)
      /\ \A idx \in old..(n - 1) :
           LET id == len + 1 + (idx - old)
           IN  /\ cap'.constructions[id] = CapConstruction(idx)
               /\ cap'.allPromises[idx] = id
               /\ cap'.allOkPromises[idx] = id
               /\ cap'.allAborters[idx] = id
               /\ id \in cap'.okPromises
      /\ \A id \in 1..len : cap'.constructions[id] = cap.constructions[id]
      /\ \A idx \in 0..(old - 1) : CapSlot(cap', idx) = CapSlot(cap, idx)
      /\ \A idx \in old..(n - 1) : CapSlot(cap', idx).entry = CapSlot(cap, idx).entry
      /\ cap'.okEntries = cap.okEntries
      /\ cap'.errEntries = cap.errEntries

\* growOrShrink(n) with n below the capacity: the slots of [n, old) aborted
\* and deleted, their Ok entries disposed, and nothing else touched
Shrinks(old, n) ==
  LET gone == n..(old - 1)
      aborted == { cap.allAborters[idx] : idx \in gone \cap DOMAIN cap.allAborters }
      disposed == { cap.allEntries[idx] : idx \in { k \in gone : CapReady(k) } }
      removed == { cap.allEntries[idx] : idx \in gone \cap DOMAIN cap.allEntries }
  IN  /\ \A idx \in gone : CapSlotEmpty(cap', idx)
      /\ \A idx \in 0..(n - 1) : CapSlot(cap', idx) = CapSlot(cap, idx)
      /\ Len(cap'.constructions) = Len(cap.constructions)
      /\ \A id \in DOMAIN cap.constructions :
           /\ cap'.constructions[id].aborted =
                (cap.constructions[id].aborted \/ id \in aborted)
           /\ cap'.constructions[id].given =
                cap.constructions[id].given + (IF id \in disposed THEN 1 ELSE 0)
           /\ cap'.constructions[id].entry = cap.constructions[id].entry
           /\ cap'.constructions[id].index = cap.constructions[id].index
      /\ cap'.okEntries = cap.okEntries \ removed
      /\ cap'.errEntries = cap.errEntries \ removed

\* C17: growOrShrink(n) returns the capacity in force before the call and sets
\* the capacity to n; a larger n starts one construction for each index of
\* [old, n) and touches no lower index; a smaller n aborts and deletes the
\* indexes of [n, old), disposing the Ok entries these slots hold, and leaves
\* the slots below n unchanged; an equal n changes nothing.
C17_GrowOrShrinkContract ==
  [][\A n \in Capacities :
       GrowOrShrink(n) =>
         LET old == cap.capacity
         IN  /\ cap'.returned = old
             /\ cap'.capacity = n
             /\ n > old => Grows(old, n)
             /\ n < old => Shrinks(old, n)
             /\ n = old => CapContent(cap') = CapContent(cap)]_vars

\* growOrShrink(1) just returned 2 and disposed the Ok entry of slot 1
C17_Witness ==
  /\ cap.returned = 2
  /\ cap.capacity = 1
  /\ CapSlotEmpty(cap, 1)
  /\ \E id \in DOMAIN cap.constructions :
       /\ cap.constructions[id] = [index |-> 1, aborted |-> TRUE, entry |-> "ok", given |-> 1]
       /\ id \notin cap.okEntries

\* ------------------------------------------------------------------ C18
\* C18: what an iteration on the pool yields is fixed when the iteration
\* starts: it yields only values the pool held at that moment, and once done
\* it has yielded all of them, whatever was committed, stopped or restarted in
\* between.
C18_IterationIsSnapshot ==
  /\ Elements(iter.yielded) \subseteq iter.snapshot
  /\ iter.pc = "done" => Elements(iter.yielded) = iter.snapshot

\* ------------------------------------------------------------------ C19
\* C19: disposing a PoolItem that was already disposed, or moved or unwrapped
\* out of the pool, runs neither the entry cleanup nor the value's disposer.
C19_DisposeIdempotent ==
  [][\A id \in Held :
       (ItemDispose(id) /\ items[id].state = "dropped")
         => /\ items'[id].cleaned = items[id].cleaned
            /\ items'[id].disposed = items[id].disposed]_vars

\* ------------------------------------------------------------------ C20
\* A getter call left every slot, item and construction as it was
ReadOnly == UNCHANGED << entries, items, aborters, controllers, creating >>

\* C20: getAnyOrThrow(index) and getOrThrow(index) throw EmptySlotError
\* exactly when the slot holds no entry; getRandomOrThrow and
\* getCryptoRandomOrThrow throw EmptyPoolError exactly when no slot holds a
\* Ready, owned item; each of them returns or throws in the step of the call
\* and changes no slot, no borrow state and no construction in flight.
C20_GettersFailFast ==
  [][/\ \A idx \in Indexes :
          /\ GetAnyOrThrow(idx)
               => /\ got'.kind = "EmptySlotError" <=> idx \notin DOMAIN entries
                  /\ got'.kind \in {"EmptySlotError", "Ok", "Err"}
                  /\ ReadOnly
          /\ GetOrThrow(idx)
               => /\ got'.kind = "EmptySlotError" <=> idx \notin DOMAIN entries
                  /\ got'.kind \in {"EmptySlotError", "item", "thrown"}
                  /\ ReadOnly
     /\ (GetRandomOrThrow \/ GetCryptoRandomOrThrow)
          => /\ got'.kind = "EmptyPoolError" <=>
                  ~ \E idx \in DOMAIN entries :
                      /\ entries[idx].tag = "Ok"
                      /\ items[entries[idx].item].state = "owned"
             /\ got'.kind \in {"EmptyPoolError", "item"}
             /\ ReadOnly]_vars

\* getOrThrow threw EmptySlotError on a slot under construction while the
\* other slot holds a Ready item
C20_Witness ==
  /\ got.kind = "EmptySlotError"
  /\ creating # {}
  /\ \E idx \in DOMAIN entries : IsOk(entries, idx)
  /\ \E idx \in DOMAIN aborters : idx \notin DOMAIN entries

\* ------------------------------------------------------------------ C21
\* The slot is Ready and its item is owned, not borrowed
Available(idx) == IsOk(entries, idx) /\ Owned(items, entries[idx].item)

\* The call of waiter w returns in this step
Returns(w) == waiters[w].pc \in { "idle", "woken" } /\ waiters'[w].pc = "done"

\* C21: getOrWaitOrThrow(index) returns only when the slot is Ready with an
\* owned, not borrowed item: at once when that holds at the call, and never
\* with the value of an item that is borrowed at the moment of the return.
C21_GetOrWaitReturnsAvailable ==
  [][\A w \in Waiters :
       /\ (Returns(w) /\ waiters'[w].kind = "getOrWaitOrThrow")
            => Available(waiters'[w].index)
       /\ \A idx \in Indexes :
            (WaitCall(w, "getOrWaitOrThrow", idx) /\ Available(idx))
              => waiters'[w].pc = "done"]_vars

\* ------------------------------------------------------------------ C25
\* The slot holds an Err entry
Failed(idx) == idx \in DOMAIN entries /\ entries[idx].tag = "Err"

\* Waiter w is blocked in getOrWaitOrThrow on a Failed slot
BlockedOnFailed(w) ==
  /\ waiters[w].kind = "getOrWaitOrThrow"
  /\ waiters[w].pc = "waiting"
  /\ Failed(waiters[w].index)

\* C25: a caller blocked in getOrWaitOrThrow(index) while slot index is Failed,
\* whether it was waiting when the construction failed or called afterwards,
\* is rejected, unless the slot leaves the Failed state first.
C25_FailedSlotRejectsWaiters ==
  \A w \in Waiters :
    BlockedOnFailed(w) ~> (waiters[w].pc = "rejected" \/ ~Failed(waiters[w].index))

\* ------------------------------------------------------------------ C22
\* The callers that hold a borrow of item id
Borrowers(id) == { w \in Waiters : waiters[w].pc = "borrowed" /\ waiters[w].item = id }

\* C22: borrowOrWaitOrThrow tests and borrows in one step: whatever the
\* number of callers on an index, an item is borrowed by at most one of them
\* at a time, the item of a slot that a caller holds is in the borrowed state,
\* and no call ends with the error of borrowing a borrowed item.
C22_BorrowExclusive ==
  /\ \A id \in DOMAIN items : Cardinality(Borrowers(id)) <= 1
  /\ \A w \in Waiters :
       /\ (waiters[w].pc = "borrowed" /\ InPool(waiters[w].item))
            => items[waiters[w].item].state = "borrowed"
       /\ waiters[w].pc # "thrown"

\* Two callers on the same index: the first has returned its borrow, the
\* second, which had to wait for it, now holds the same item
C22_Witness ==
  /\ waiters[1].pc = "done"
  /\ waiters[2].pc = "borrowed"
  /\ waiters[1].item = waiters[2].item
  /\ waiters[1].index = waiters[2].index
  /\ items[waiters[2].item].state = "borrowed"

\* ------------------------------------------------------------------ C23
\* Waiter w is blocked in borrowOrWaitOrThrow
Blocked(w) ==
  /\ waiters[w].kind = "borrowOrWaitOrThrow"
  /\ waiters[w].pc \in { "waiting", "woken" }

\* C23: every ready event of an index, from set or from a returned borrow,
\* wakes all the callers blocked in borrowOrWaitOrThrow on that index; and a
\* blocked caller whose slot holds an item eventually obtains the borrow, when
\* every borrow is returned and the slot is not deleted.
C23_NoMissedWakeup ==
  /\ [][\A idx \in Indexes :
          (\E k \in DOMAIN emitted' : emitted'[k] = ReadyEvent(idx))
            => \A w \in Waiters :
                 (waiters[w].pc = "waiting" /\ waiters[w].index = idx)
                   => waiters'[w].pc = "woken"]_vars
  /\ \A w \in Waiters :
       (Blocked(w) /\ IsOk(entries, waiters[w].index))
         ~> (waiters[w].pc \in { "borrowed", "done" })

\* Two callers blocked on the same index were both woken by its ready event
C23_Witness ==
  /\ waiters[1].pc = "woken"
  /\ waiters[2].pc = "woken"
  /\ waiters[1].kind = "borrowOrWaitOrThrow"
  /\ waiters[1].index = waiters[2].index
  /\ IsOk(entries, waiters[1].index)

\* ------------------------------------------------------------------ C24
\* C24: of two callers that await getOrWaitOrThrow(index) and then call
\* borrowOrThrow on the item they received, none sees borrowOrThrow throw: a
\* caller holds the item it received only while no other caller has it
\* borrowed.
C24_GetThenBorrowSucceeds ==
  \A w \in Waiters :
    /\ waiters[w].pc # "thrown"
    /\ waiters[w].pc = "got" => Borrowers(waiters[w].item) = {}

\* ------------------------------------------------------------------ C26
\* What the pool holds for a slot: its entry and its token
Slot(idx) ==
  [ entry |-> IF idx \in DOMAIN entries THEN entries[idx] ELSE [tag |-> "Empty"],
    aborter |-> IF idx \in DOMAIN aborters THEN aborters[idx] ELSE 0 ]

\* C26: when a creator whose token is not aborted fails on index i, slot i
\* becomes Failed with exactly that error and one error event for i is
\* emitted, and nothing of another index changes: no entry, no item and its
\* borrow state, no construction in flight, no token.
C26_FailureTouchesOnlyItsSlot ==
  [][\A id \in creating, e \in CreatorErrors :
       (CreateReject(id, e) /\ ~controllers[id].aborted)
         => LET idx == controllers[id].index
            IN  /\ idx \in DOMAIN entries'
                /\ entries'[idx] = ErrEntry(e)
                /\ emitted' = << ErrorEvent(idx) >>
                /\ \A other \in Indexes \ { idx } : Slot(other)' = Slot(other)
                /\ DOMAIN items' = DOMAIN items
                /\ \A item \in DOMAIN items :
                     items[item].index # idx => items'[item] = items[item]
                /\ creating' = creating \ { id }
                /\ controllers' = controllers]_vars

\* A construction just failed on one slot while the item of the other slot is
\* borrowed
C26_Witness ==
  \E idx \in Indexes, other \in Indexes :
    /\ other # idx
    /\ Failed(idx)
    /\ emitted = << ErrorEvent(idx) >>
    /\ IsOk(entries, other)
    /\ items[entries[other].item].state = "borrowed"

RestartedBy(p, t) == { id \in DOMAIN p.constructions : p.constructions[id].by = t }

\* C28: a call of takeRawRandomOrThrow(signal) or takeRandomOrThrow(signal)
\* whose signal is aborted rejects, also while it is queued on the mutex
\* behind a taker that is itself waiting, and from the abort on it moves no
\* item and restarts no slot.
C28_AbortedTakeRejects ==
  /\ \A t \in Takers : takers[t].aborted ~> (takers[t].pc = "failed")
  /\ [][\A t \in Takers :
          takers[t].aborted
            => /\ takers'[t].taken = takers[t].taken
               /\ RestartedBy(pool', t) = RestartedBy(pool, t)]_vars

\* ------------------------------------------------------------------ C29
\* The items that are the Ok entries of their slots
ReadyItems == { id \in Held : InPool(id) }

\* C29: disposing a StartPool aborts the token of every construction in
\* flight and disposes every Ready Item exactly once (its value too unless it
\* is borrowed), leaving every other item alone and every slot Empty; and a
\* construction in flight with an aborted token that completes later commits
\* no entry, and its resource, if the creator made one, is disposed.
C29_DisposeTearsDownEverything ==
  [][/\ DisposePool
          => /\ \A id \in creating : controllers'[id].aborted
             /\ \A id \in ReadyItems :
                  /\ items'[id].cleaned = items[id].cleaned + 1
                  /\ items'[id].disposed =
                       items[id].disposed + (IF Owned(items, id) THEN 1 ELSE 0)
                  /\ items'[id].state = "dropped"
             /\ \A id \in DOMAIN items \ ReadyItems : items'[id] = items[id]
             /\ entries' = Empty
             /\ aborters' = Empty
             /\ creating' = creating
     /\ \A id \in creating :
          controllers[id].aborted
            => /\ controllers'[id].aborted
               /\ CreateResolve(id)
                    => /\ entries' = entries
                       /\ items'[id] = DiscardedItem(controllers[id].index)
               /\ \A e \in CreatorErrors :
                    CreateReject(id, e) => entries' = entries /\ items' = items]_vars

\* The pool was torn down while one slot was Ready and the construction of the
\* other was in flight, and that construction has completed since
C29_Witness ==
  /\ entries = Empty
  /\ aborters = Empty
  /\ creating = {}
  /\ \E id \in Held, late \in DOMAIN items :
       /\ items[id].cleaned = 1 /\ items[id].disposed = 1
       /\ items[late] = DiscardedItem(items[late].index)
       /\ items[late].index # items[id].index
       /\ controllers[late].aborted
       /\ ~controllers[id].aborted

\* ------------------------------------------------------------------ C30
\* The constructions made for index idx
StartedFor(idx) == { id \in DOMAIN controllers : controllers[id].index = idx }

\* C30: an AutoPool constructed with capacity N has started, when its
\* constructor returns, exactly one construction for each index 0..N-1 and
\* none for another index, it starts none later on its own, and when every
\* creator succeeds all N slots are eventually Ready.
C30_AutoPoolStartsEverySlot ==
  /\ [](/\ Len(controllers) = autoCapacity
        /\ \A idx \in 0..(autoCapacity - 1) : Cardinality(StartedFor(idx)) = 1
        /\ \A id \in DOMAIN controllers : ~controllers[id].aborted)
  /\ (autoCapacity # NotAuto)
       ~> (\A idx \in 0..(autoCapacity - 1) : IsOk(entries, idx))

\* An AutoPool of the largest capacity with every slot Ready
C30_Witness ==
  /\ autoCapacity = NumIndexes
  /\ creating = {}
  /\ \A idx \in Indexes : IsOk(entries, idx)

\* ------------------------------------------------------------------ C31
\* C31: in an AutoPool whose creators succeed, a slot of the pool that holds
\* no Item, because its construction is under way or because its Item was
\* taken out with unwrap or move, eventually is Ready (again), without any
\* further call on the pool.
C31_TakenSlotIsRefilled ==
  \A idx \in Indexes :
    (autoCapacity # NotAuto /\ idx < autoCapacity /\ ~IsOk(entries, idx))
      ~> IsOk(entries, idx)

\* ------------------------------------------------------------------ C32
\* C32: a call of getRawRandomOrThrow(signal) / getRandomOrThrow(signal) ends
\* only by returning an Ok entry or by the abort of its own signal, whatever
\* slots are stopped, restarted or fail while it waits (the call having found
\* a slot started); and it does not wait for ever while a slot stays Ready.
C32_RandomGetEndsByItemOrAbort ==
  /\ [](\A t \in Takers :
          (takers[t].pc = "failed" /\ takers[t].snapshot # {})
            => takers[t].error = "AbortError")
  /\ \A t \in Takers :
       ~<>[](takers[t].pc = "getting" /\ pool.okEntries # {})

\* ------------------------------------------------------------------ C33
\* The constructions made for index idx of the start/stop pool
MadeFor(p, idx) == { id \in DOMAIN p.constructions : p.constructions[id].index = idx }

\* What the per-index arrays of the pool hold for index idx
SlotOf(p, idx) ==
  [ aborter |-> IF idx \in DOMAIN p.allAborters THEN p.allAborters[idx] ELSE 0,
    promise |-> IF idx \in DOMAIN p.allPromises THEN p.allPromises[idx] ELSE 0,
    okPromise |-> IF idx \in DOMAIN p.allOkPromises THEN p.allOkPromises[idx] ELSE 0,
    entry |-> IF idx \in DOMAIN p.allEntries THEN p.allEntries[idx] ELSE 0,
    value |-> IF idx \in DOMAIN p.allValues THEN p.allValues[idx] ELSE 0 ]

StoppedInFlight(p, id) ==
  p.constructions[id].aborted /\ p.constructions[id].promise \in { "pending", "rejected" }

\* C34: stopping a slot whose construction is in flight emits nothing and
\* leaves the slot without entry; when the creator of that construction
\* settles later, resolving or rejecting, nothing is emitted and no entry is
\* stored; so no created or deleted event ever names such a construction.
C34_StopInFlightIsSilent ==
  /\ [](\A k \in DOMAIN pool.emitted :
          pool.emitted[k].type \in { "created", "deleted" }
            => ~StoppedInFlight(pool, pool.emitted[k].entry))
  /\ [][/\ \A idx \in Indexes :
             (StopAnySlot(idx) /\ Pending(pool, idx))
               => /\ pool'.emitted = << >>
                  /\ idx \notin DOMAIN pool'.allEntries
                  /\ StoppedInFlight(pool', pool.allPromises[idx])
        /\ \A id \in Unsettled :
             (StoppedInFlight(pool, id) /\ (CreatorResolves(id) \/ CreatorRejects(id)))
               => /\ pool'.emitted = << >>
                  /\ pool'.allEntries = pool.allEntries
                  /\ pool'.anyEntries = pool.anyEntries
                  /\ pool'.okEntries = pool.okEntries
                  /\ pool'.errEntries = pool.errEntries
                  /\ pool'.values = pool.values
                  /\ StoppedInFlight(pool', id)]_vars

\* A construction stopped in flight has settled since, and its slot is empty
C34_Witness ==
  \E id \in DOMAIN pool.constructions :
    /\ pool.constructions[id].aborted
    /\ pool.constructions[id].promise = "rejected"
    /\ pool.constructions[id].index \notin DOMAIN pool.allPromises
    /\ pool.constructions[id].index \notin DOMAIN pool.allEntries
    /\ pool.emitted = << >>

\* ------------------------------------------------------------------ C35
\* C35: start(index) on a slot that is started (Pending, Ready or Failed)
\* calls no creator, emits nothing and keeps the token, the promises and the
\* entry of the slot; and a construction begins for an index only when the
\* slot holds no promise (never started, or stopped) or in a restart, which
\* aborts the construction it replaces.
C35_StartIsIdempotent ==
  [][/\ \A idx \in Indexes :
          (StartAnySlot(idx) /\ idx \in DOMAIN pool.allPromises) => pool' = Quiet
     /\ \A id \in DOMAIN pool'.constructions \ DOMAIN pool.constructions :
          LET idx == pool'.constructions[id].index
          IN  \/ idx \notin DOMAIN pool.allPromises
              \/ pool'.constructions[pool.allPromises[idx]].aborted]_vars

\* start was called again on the one slot started, which is Ready
C35_Witness ==
  /\ Len(pool.constructions) = 1
  /\ Ready(pool, 0)
  /\ pool.emitted = << >>
  /\ \A t \in Takers : takers[t].pc = "idle"

\* ------------------------------------------------------------------ C36
\* The call waits for a construction that a restart has superseded
AwaitsSuperseded(t) ==
  /\ takers[t].pc = "awaiting"
  /\ \E id \in takers[t].snapshot : pool.constructions[id].aborted

\* C36: a getOrThrow(index, signal) call ends only with a value, with the
\* stored error of the slot or with the abort of its own signal, never with
\* the cancellation of a construction; and a call that waits on a slot that is
\* restarted keeps waiting until the slot's new construction is Ready, and
\* then returns.
C36_GetSurvivesRestart ==
  /\ [](\A t \in Takers :
          takers[t].pc = "failed"
            => takers[t].error \in { "EmptySlotError", "Error", "AbortError" })
  /\ \A t \in Takers, idx \in Indexes :
       (AwaitsSuperseded(t) /\ Ready(pool, idx)
          /\ \E id \in takers[t].snapshot : pool.constructions[id].index = idx)
         ~> (takers[t].pc # "awaiting")

\* ------------------------------------------------------------------ C37
\* C37: in the capacity-managed pool no slot at or beyond the capacity holds
\* an entry, and no slot holds the entry of a construction whose token was
\* aborted: a construction deleted by a shrink or superseded by a restart
\* while in flight never commits an Ok or Err entry.
C37_AbortedConstructionNeverCommits ==
  \A idx \in DOMAIN cap.allEntries :
    /\ idx < cap.capacity
    /\ ~cap.constructions[cap.allEntries[idx]].aborted

\* ------------------------------------------------------------------ C38
\* C38: for an entry returned by takeRawRandomSyncOrThrow or
\* takeRawRandomOrThrow the entry cleanup has run at most once while the
\* caller holds the entry and exactly once in total when the caller has
\* disposed it, the restart of the slot included; and the value taken stays
\* moved out, its box never disposed by the pool.
C38_TakenCleanupExactlyOnce ==
  \A t \in Takers :
    takers[t].pc \in { "done", "disposed" }
      => /\ pool.resources[takers[t].taken].cleaned <= 1
         /\ takers[t].pc = "disposed" => pool.resources[takers[t].taken].cleaned = 1
         /\ pool.resources[takers[t].taken].box = "moved"

\* ------------------------------------------------------------------ C39
\* The slots whose entry is an Ok entry
OkSlots(p) == { idx \in DOMAIN p.allEntries : p.resources[p.allEntries[idx]].kind = "disposer" }

\* The slots whose entry is an Err entry
ErrSlots(p) == { idx \in DOMAIN p.allEntries : p.resources[p.allEntries[idx]].kind = "error" }

\* C39: in every state reached by start, stop, restart, take and settling
\* creators, a slot has an entry only if it has a promise and an aborter;
\* #anyEntries, #okEntries and #errEntries hold exactly the entries, the Ok
\* entries and the Err entries stored in slots, #okEntries and #errEntries
\* sharing none; #anyPromises and #okPromises hold exactly the per-index
\* promises; and size (values are pairwise distinct) is the number of slots
\* with an Ok entry.
C39_IndexStructuresAgree ==
  /\ DOMAIN pool.allEntries \subseteq DOMAIN pool.allPromises
  /\ DOMAIN pool.allEntries \subseteq DOMAIN pool.allAborters
  /\ DOMAIN pool.allPromises = DOMAIN pool.allAborters
  /\ DOMAIN pool.allPromises = DOMAIN pool.allOkPromises
  /\ pool.anyEntries = { pool.allEntries[idx] : idx \in DOMAIN pool.allEntries }
  /\ pool.okEntries = { pool.allEntries[idx] : idx \in OkSlots(pool) }
  /\ pool.errEntries = { pool.allEntries[idx] : idx \in ErrSlots(pool) }
  /\ pool.okEntries \cap pool.errEntries = {}
  /\ pool.okEntries \cup pool.errEntries = pool.anyEntries
  /\ pool.anyPromises = { pool.allPromises[idx] : idx \in DOMAIN pool.allPromises }
  /\ pool.okPromises = { pool.allOkPromises[idx] : idx \in DOMAIN pool.allOkPromises }
  /\ Cardinality(pool.anyEntries) = Cardinality(DOMAIN pool.allEntries)
  /\ Cardinality(pool.anyPromises) = Cardinality(DOMAIN pool.allPromises)
  /\ Cardinality(pool.okPromises) = Cardinality(DOMAIN pool.allOkPromises)
  /\ DOMAIN pool.allValues = OkSlots(pool)
  /\ Size(pool) = Cardinality(OkSlots(pool))

\* An entry was taken, a slot was stopped while its construction was in
\* flight, and the pool holds an Err entry in a slot
C39_Witness ==
  /\ \E t \in Takers : takers[t].pc = "done"
  /\ \E id \in AbortedConstructions : id \notin DOMAIN pool.resources
  /\ pool.errEntries # {}

\* ------------------------------------------------------------------ C40
\* A loop before its first iteration: the counter, the collected errors, what
\* it did so far and what it ended with
LoopStart == [n |-> 0, errs |-> << >>, tr |-> << >>, end |-> NoResult]

\* One iteration of loopOrThrow once the looper's promise settled with o:
\* return await looper(i), or the catch block
LoopOrThrowCatch(d, b, st, o) ==
  CASE o.kind = "Ok" -> [st EXCEPT !.end = [kind |-> "Return", value |-> o.inner]]
    [] o.kind = "Skip" -> [st EXCEPT !.errs = Append(@, o), !.n = @ + 1]
    [] o.kind = "Retry" -> [st EXCEPT !.errs = Append(@, o),
                                      !.tr = Append(@, SleepEvent(Delay(d, b, st.n))),
                                      !.n = @ + 1]
    [] o.kind = "Other" -> [st EXCEPT !.end = [kind |-> "Throw", value |-> o.inner]]
    [] OTHER -> [st EXCEPT !.end = [kind |-> "Throw", value |-> o]]

TryLoopSleepsOnSkip(d, b, st, o) ==
  CASE o.kind = "Ok" -> [st EXCEPT !.end = [kind |-> "Ok", value |-> o.inner]]
    [] o.kind \in { "Skip", "Retry" } ->
         [st EXCEPT !.errs = Append(@, o),
                    !.tr = Append(@, SleepEvent(Delay(d, b, st.n))),
                    !.n = @ + 1]
    [] OTHER -> [st EXCEPT !.end = [kind |-> "Err", value |-> o.inner]]

\* One iteration of tryLoop once the looper's promise resolved with o
TryLoopBody(d, b, st, o) ==
  CASE o.kind = "Ok" -> [st EXCEPT !.end = [kind |-> "Ok", value |-> o.inner]]
    [] o.kind = "Skip" -> [st EXCEPT !.errs = Append(@, o), !.n = @ + 1]
    [] o.kind = "Retry" -> [st EXCEPT !.errs = Append(@, o),
                                      !.tr = Append(@, SleepEvent(Delay(d, b, st.n))),
                                      !.n = @ + 1]
    [] OTHER -> [st EXCEPT !.end = [kind |-> "Err", value |-> o.inner]]

\* loopOrThrow from the head of its for loop, the looper answering outs in
\* turn; when outs runs out the looper's promise is pending
RECURSIVE loopOrThrowFrom(_, _, _, _, _)
loopOrThrowFrom(d, b, m, st, outs) ==
  IF st.end # NoResult
    THEN st
    ELSE IF ~(st.n < m)
      THEN [st EXCEPT !.end = [kind |-> "Throw", value |-> TooManyRetriesError(st.errs)]]
      ELSE LET called == [st EXCEPT !.tr = Append(@, CallEvent(st.n))]
           IN  IF outs = << >>
                 THEN called
                 ELSE loopOrThrowFrom(d, b, m, LoopOrThrowCatch(d, b, called, Head(outs)), Tail(outs))

\* tryLoop from the head of its for loop
RECURSIVE tryLoopFrom(_, _, _, _, _)
tryLoopFrom(d, b, m, st, outs) ==
  IF st.end # NoResult
    THEN st
    ELSE IF ~(st.n < m)
      THEN [st EXCEPT !.end = [kind |-> "Err", value |-> TooManyRetriesError(st.errs)]]
      ELSE LET called == [st EXCEPT !.tr = Append(@, CallEvent(st.n))]
           IN  IF outs = << >>
                 THEN called
                 ELSE tryLoopFrom(d, b, m, TryLoopBody(d, b, called, Head(outs)), Tail(outs))

\* loopOrThrow(looper, { init: d, base: b, max: m })
loopOrThrow(d, b, m, outs) == loopOrThrowFrom(d, b, m, LoopStart, outs)

\* tryLoop(looper, { init: d, base: b, max: m })
tryLoop(d, b, m, outs) == tryLoopFrom(d, b, m, LoopStart, outs)

\* The same attempt outcome for the other loop: a failure that is neither
\* Retry nor Skip is what the looper throws in loopOrThrow and what the Cancel
\* in the looper's Err holds in tryLoop
AsThrown(o) == IF o.kind = "Cancel" THEN [kind |-> "Other", inner |-> o.inner] ELSE o

AsResult(o) ==
  CASE o.kind = "Other" -> [kind |-> "Cancel", inner |-> o.inner]
    [] o.kind = "Cancel" -> [kind |-> "Cancel", inner |-> o]
    [] OTHER -> o

\* What loopOrThrow ended with corresponds to what tryLoop ended with
Corresponds(thrown, returned) ==
  \/ thrown = NoResult /\ returned = NoResult
  \/ thrown.kind = "Return" /\ returned.kind = "Ok" /\ thrown.value = returned.value
  \/ thrown.kind = "Throw" /\ returned.kind = "Err" /\ thrown.value = returned.value

\* The two loops on the same options and the same outcomes
SameRun(thrower, resulter) ==
  /\ thrower.tr = resulter.tr
  /\ thrower.n = resulter.n
  /\ thrower.errs = resulter.errs
  /\ Corresponds(thrower.end, resulter.end)

\* C40: for the same options and the same attempt outcomes (success, Retry,
\* Skip, or a failure that is neither), loopOrThrow and tryLoop call the looper
\* equally often with the same indexes, make the same sleeps in the same
\* places and end alike: value returned and Ok of it, TooManyRetriesError with
\* the same collected errors thrown and in Err, the failure thrown and in Err.
\* Each running loop is the one its function computes, and the other function
\* on the same answers runs the same.
C40_LoopsAreEquivalent ==
  /\ (loopKind = "loopOrThrow" /\ loopPc \in { "looper", "done" })
       => /\ loopOrThrow(init, base, max, outcomes).tr = trace
          /\ loopOrThrow(init, base, max, outcomes).end = result
          /\ loopOrThrow(init, base, max, outcomes).errs = errors
          /\ SameRun(loopOrThrow(init, base, max, outcomes),
                     tryLoop(init, base, max, [k \in DOMAIN outcomes |-> AsResult(outcomes[k])]))
  /\ (loopKind = "tryLoop" /\ loopPc \in { "looper", "done" })
       => /\ tryLoop(init, base, max, outcomes).tr = trace
          /\ tryLoop(init, base, max, outcomes).end = result
          /\ tryLoop(init, base, max, outcomes).errs = errors
          /\ SameRun(loopOrThrow(init, base, max, [k \in DOMAIN outcomes |-> AsThrown(outcomes[k])]),
                     tryLoop(init, base, max, outcomes))

\* tryLoop has ended with TooManyRetriesError after a Skip and a Retry, having
\* slept once
C40_Witness ==
  /\ loopKind = "tryLoop"
  /\ loopPc = "done"
  /\ result.kind = "Err"
  /\ result.value = TooManyRetriesError(outcomes)
  /\ \E k \in DOMAIN outcomes : outcomes[k].kind = "Skip"
  /\ Len(Sleeps) = 1
  /\ init * base > 1

====
